---- MODULE Spec2Model ----
(***************************************************************************)
(* Room/session state manager of the multiplayer game server (the server   *)
(* entry point with gameRooms, the joinGame / playerUpdate /               *)
(* playerStateUpdate / playerRespawn / playerKilled / disconnect handlers, *)
(* the stale-player cleanup timer and the leaderboard timer).              *)
(*                                                                         *)
(* Conventions                                                             *)
(*  - money is counted in cents (1.00 is 100), speed in tenths (2.5 is 25).*)
(*  - a JS Map is a sequence of entries [k, v] in insertion order.         *)
(*  - an id is a pair <<prefix, n>>; startsWith looks at the prefix.       *)
(*  - every handler is an operator from a world record (the server's       *)
(*    mutable state plus the events emitted so far) to a world record; an  *)
(*    action applies one handler to the current state.                     *)
(***************************************************************************)
EXTENDS Integers, Sequences, FiniteSets, TLC

VARIABLES
  gameRooms,     \* Map<roomName, Map<socketId, PlayerState>>
  onlineUsers,   \* Map<username, Set<socketId>>
  sockets,       \* per connection: the closure variables of io.on("connection") and
                 \* the 'join' handlers of it that wait at an await
  now,           \* Date.now()
  isProduction,  \* process.env.NODE_ENV === "production"
  emitted,       \* the events the last handler emitted, in order
  last,          \* the last event handled: its name and its connection
  removed,       \* history: the <<roomName, socketId>> pairs deleted from a room so far
  process,       \* "running", or "crashed" once a handler threw (no handler catches)
  accepted       \* history: per room, how many joinGame and playerRespawn events the
                 \* server accepted so far (kept by the runs that count them)

vars ==
  <<gameRooms, onlineUsers, sockets, now, isProduction, emitted, last, removed, process,
    accepted>>

----------------------------------------------------------------------------
(* Program constants *)

MaxPlayersPerRoom == 80
InitialMoney == 100
InitialKills == 0
InitialLength == 10
InitialSpeed == 25
InitialScore == 0
LeaderboardSize == 10

staleThreshold == IF isProduction THEN 30000 ELSE 60000
manualStaleThreshold == 30000

----------------------------------------------------------------------------
(* Bounds of the model *)

\* the clock is read at MaxTicks + 1 instants, ClockStep apart
MaxTicks == 2
\* the runs that count accepted events stop respawning after MaxRespawns respawns
MaxRespawns == 2
ClockStep == staleThreshold

----------------------------------------------------------------------------
(* JavaScript values *)

Null == <<>>
Undefined == [type |-> "undefined"]
Num(n) == [type |-> "number", num |-> n, special |-> "none"]
NaN == [type |-> "number", num |-> 0, special |-> "NaN"]
\* what JSON.parse makes of a number literal beyond the double range (1e999)
Infinity == [type |-> "number", num |-> 0, special |-> "Infinity"]
Str(s) == [type |-> "string", str |-> s]
typeof(v) == v.type
Pos(x, y) == [type |-> "object", x |-> Num(x), y |-> Num(y)]
Falsy(v) == v = Undefined
\* an event sent without its argument: the handler's parameter is undefined
IsMissing(payload) == payload = Undefined

startsWith(id, prefix) == id[1] = prefix

\* JS Map: has / get / set / delete / size / keys(), in insertion order
EmptyMap == <<>>
MapHas(m, k) == \E i \in DOMAIN m : m[i].k = k
MapIndex(m, k) == CHOOSE i \in DOMAIN m : m[i].k = k
MapGet(m, k) == m[MapIndex(m, k)].v
MapSet(m, k, v) ==
  IF MapHas(m, k) THEN [m EXCEPT ![MapIndex(m, k)].v = v]
  ELSE Append(m, [k |-> k, v |-> v])
MapDelete(m, k) == LET keep(e) == e.k # k IN SelectSeq(m, keep)
MapSize(m) == Len(m)
MapKeySet(m) == {m[i].k : i \in DOMAIN m}
MapKeys(m) == [i \in DOMAIN m |-> m[i].k]

\* Object.assign(target, source): source's own fields overwrite target's
ObjectAssign(target, source) ==
  [f \in DOMAIN target \cup DOMAIN source |->
     IF f \in DOMAIN source THEN source[f] ELSE target[f]]

----------------------------------------------------------------------------
(* Identities and inputs *)

SocketId(n) == <<"sk", n>>
BotId == <<"bot-", 1>>

\* the connections whose events the model interleaves
Active == {SocketId(1), SocketId(2)}
\* connections that joined the first room at time 0, in this order, and then stay
\* silent: the first k of them are the players an initial state starts with
Silent(k) == [i \in 1..k |-> SocketId(i + 2)]

RoomName(region, roomId) == <<region, roomId>>

\* socket.handshake.query.username of each connection: the first gives a name,
\* the others give none
QueryUsername(c) == IF c = SocketId(1) THEN "ann" ELSE "undefined"
\* Player${Math.floor(Math.random() * 9999)}
GeneratedUsernames == {"Player7"}

\* the usernames sent with the presence event 'join'; the last is the empty one
PresenceNames == {"ann", "bob", ""}

\* joinGame payloads {roomId, region, username}
JoinPayloads ==
  { [roomId |-> "42", region |-> "us", username |-> "zed"],
    [roomId |-> "7",  region |-> "eu", username |-> "undefined"] }
FirstRoom == RoomName("us", "42")
\* the rooms a joinGame of the model can name
RoomNames == {RoomName(p.region, p.roomId) : p \in JoinPayloads}
\* the joins that aim at the first room
FirstRoomJoins == {p \in JoinPayloads : RoomName(p.region, p.roomId) = FirstRoom}

\* playerUpdate payloads {head, direction, speed, length, isBoosting}
UpdatePayloads ==
  { [head |-> Pos(10, 20), direction |-> 157, speed |-> 50, length |-> 12, isBoosting |-> TRUE],
    [head |-> Undefined, direction |-> 157, speed |-> 50, length |-> 12, isBoosting |-> TRUE],
    [head |-> [type |-> "object", x |-> Str("10"), y |-> Num(20)],
       direction |-> 157, speed |-> 50, length |-> 12, isBoosting |-> TRUE] }

\* playerUpdate payloads whose head holds a number that is not finite
NonFiniteUpdates ==
  { [head |-> [type |-> "object", x |-> Infinity, y |-> Num(20)],
       direction |-> 157, speed |-> 50, length |-> 12, isBoosting |-> TRUE] }

\* playerStateUpdate payloads, Partial<PlayerState>: every client sends the segment
\* sync; the first connection is a client that also overwrites money, kills and id
SegmentSync == [segments |-> <<Pos(10, 20), Pos(9, 20)>>, length |-> 11, lastUpdate |-> 0 - 1]
\* the payload with no field
StatePayloads == {<<>>}
CheatPayloads(c) ==
  IF c = SocketId(1)
  THEN {SegmentSync, [money |-> 0 - 50, kills |-> 7], [id |-> BotId]}
  ELSE {SegmentSync}

\* joinGame sent without argument
MalformedJoins == {Undefined}
\* playerKilled sent without argument, with an id nobody has, with a player's id
KilledPayloads ==
  {Undefined, [victimId |-> SocketId(0)], [victimId |-> SocketId(1)],
   [victimId |-> SocketId(2)]}

\* playerKilled payloads {victimId}
VictimIds == Active \cup {SocketId(3), SocketId(0), BotId}

----------------------------------------------------------------------------
(* The transport: who receives an emit *)

IsOpen(w, c) == c \in DOMAIN w.sockets /\ w.sockets[c].status = "open"
OpenSockets(w) == {s \in DOMAIN w.sockets : w.sockets[s].status = "open"}
\* the sockets that are in socket.io room roomName
InRoom(w, roomName) == {s \in OpenSockets(w) : roomName \in w.sockets[s].rooms}

Emit(w, to, ev, data) ==
  [w EXCEPT !.emitted = Append(@, [ev |-> ev, to |-> to, data |-> data])]
\* socket.emit(ev, data)
socketEmit(w, c, ev, data) == Emit(w, {c} \cap OpenSockets(w), ev, data)
\* mutant: the emit is not scoped to the room
ioToEmit_Everyone(w, roomName, ev, data) == Emit(w, OpenSockets(w), ev, data)
\* io.to(roomName).emit(ev, data)
ioToEmit(w, roomName, ev, data) == Emit(w, InRoom(w, roomName), ev, data)
\* mutant: the sender is not excepted
socketToEmit_IncludesSender(w, c, roomName, ev, data) == Emit(w, InRoom(w, roomName), ev, data)
\* socket.to(roomName).emit(ev, data): the room except the sender
socketToEmit(w, c, roomName, ev, data) == Emit(w, InRoom(w, roomName) \ {c}, ev, data)
\* io.emit(ev, data)
ioEmit(w, ev, data) == Emit(w, OpenSockets(w), ev, data)

----------------------------------------------------------------------------
(* Helpers of the server *)

getOrCreateRoom(rooms, roomId) ==
  IF ~MapHas(rooms, roomId) THEN MapSet(rooms, roomId, EmptyMap) ELSE rooms

\* mutant: an emptied room is kept
DeleteRoomIfEmpty_Never(w, roomId) == w
\* delete a room from gameRooms when its player map is empty
DeleteRoomIfEmpty(w, roomId) ==
  IF MapSize(MapGet(w.gameRooms, roomId)) = 0
  THEN [w EXCEPT !.gameRooms = MapDelete(@, roomId)]
  ELSE w

\* room.delete(playerId) on the room stored under roomId
RoomDelete(w, roomId, playerId) ==
  [w EXCEPT !.gameRooms = MapSet(@, roomId, MapDelete(MapGet(@, roomId), playerId)),
            !.removed = @ \cup {<<roomId, playerId>>}]

\* room.set(playerId, player) on the room stored under roomId
RoomSet(w, roomId, playerId, player) ==
  [w EXCEPT !.gameRooms = MapSet(@, roomId, MapSet(MapGet(@, roomId), playerId, player))]

PlayerLeftData(playerId) == [playerId |-> playerId, timestamp |-> now]

\* a TypeError leaves the handler; nothing catches it (no try/catch in the game
\* handlers, no 'uncaughtException' listener), so the process ends
Throw(w) == [w EXCEPT !.process = "crashed"]

\* the guards every in-game handler starts with
InGameGuard(w, c) ==
  /\ w.sockets[c].isPlayerInGame
  /\ w.sockets[c].currentRoomId # Null
  /\ MapHas(w.gameRooms, w.sockets[c].currentRoomId)
  /\ MapHas(MapGet(w.gameRooms, w.sockets[c].currentRoomId), c)

----------------------------------------------------------------------------
(* socket.on("disconnect") *)

\* the fallback scan of all rooms, from the i-th room on, stopping at the first hit
DisconnectScan(w, c, roomIds, i) ==
  LET RECURSIVE scan(_)
      scan(j) ==
        IF j > Len(roomIds) THEN w
        ELSE IF MapHas(MapGet(w.gameRooms, roomIds[j]), c)
             THEN DeleteRoomIfEmpty(
                    ioToEmit(RoomDelete(w, roomIds[j], c), roomIds[j],
                             "playerLeft", PlayerLeftData(c)),
                    roomIds[j])
             ELSE scan(j + 1)
  IN scan(i)

\* for each entry of onlineUsers holding socket c: drop c, and drop the entry if left empty
CleanOnlineUsers(users, c) ==
  LET keep(e) == ~(c \in e.v /\ e.v \ {c} = {})
      kept == SelectSeq(users, keep)
  IN [i \in DOMAIN kept |-> [k |-> kept[i].k, v |-> kept[i].v \ {c}]]

onDisconnect(w, c) ==
  LET cur == w.sockets[c].currentRoomId
      fast == /\ cur # Null
              /\ MapHas(w.gameRooms, cur)
              /\ MapHas(MapGet(w.gameRooms, cur), c)
      w1 == IF fast
            THEN DeleteRoomIfEmpty(
                   socketToEmit(RoomDelete(w, cur, c), c, cur,
                                "playerLeft", PlayerLeftData(c)),
                   cur)
            ELSE DisconnectScan(w, c, MapKeys(w.gameRooms), 1)
      w2 == [w1 EXCEPT !.onlineUsers = CleanOnlineUsers(@, c)]
  IN ioEmit(w2, "online-users", MapKeys(w2.onlineUsers))

\* the transport closes socket c (socket.disconnect() or the client going away):
\* the socket leaves its rooms, then the "disconnect" handler runs
socketDisconnect(w, c) ==
  onDisconnect([w EXCEPT !.sockets[c].status = "closed", !.sockets[c].rooms = {}], c)

----------------------------------------------------------------------------
(* socket.on("join"): the presence registry *)

\* mutant: the entry is made for an empty username too, and the id is not added
RegisterUser_EmptyEntry(users, username, c) ==
  IF ~MapHas(users, username) THEN MapSet(users, username, {})
  ELSE MapSet(users, username, MapGet(users, username) \cup {c})
\* if (!onlineUsers.has(username)) onlineUsers.set(username, new Set());
\* onlineUsers.get(username)?.add(socket.id)
RegisterUser(users, username, c) ==
  LET users1 == IF ~MapHas(users, username) THEN MapSet(users, username, {}) ELSE users
  IN MapSet(users1, username, MapGet(users1, username) \cup {c})

\* the handler up to its first await: the registry is written and announced, and
\* the rest of the handler waits for storage.getUserByUsername
presenceJoin(w, c, username) ==
  IF username = "" THEN w
  ELSE
    LET w1 == [w EXCEPT !.onlineUsers = RegisterUser(@, username, c),
                        !.sockets[c].pendingJoins = @ \cup {username}]
    IN ioEmit(w1, "online-users", MapKeys(w1.onlineUsers))

\* mutant: the id is registered again when the handler resumes
presenceJoinResume_Registers(w, c, username, found) ==
  LET w1 == [w EXCEPT !.sockets[c].pendingJoins = @ \ {username},
                      !.onlineUsers = RegisterUser(@, username, c)]
  IN IF found THEN socketEmit(w1, c, "friends-list", <<>>) ELSE w1
\* the handler from its first await on: storage finds the user or not (or
\* throws, which the handler catches); a user found is sent its friends list,
\* on a socket that may be closed by now
presenceJoinResume(w, c, username, found) ==
  LET w1 == [w EXCEPT !.sockets[c].pendingJoins = @ \ {username}]
  IN IF found THEN socketEmit(w1, c, "friends-list", <<>>) ELSE w1

----------------------------------------------------------------------------
(* socket.on('joinGame') *)

\* mutant: the capacity test is off by one
RoomIsFull_OffByOne(room) == MapSize(room) > MaxPlayersPerRoom
RoomIsFull(room) == MapSize(room) >= MaxPlayersPerRoom

\* mutant: the new player is not stamped with the join time
NewPlayer_NoTimestamp(c, username, rnd) ==
  [ id |-> c,
    username |-> username,
    head |-> rnd.pos,
    direction |-> rnd.dir,
    speed |-> InitialSpeed,
    length |-> InitialLength,
    color |-> rnd.color,
    segments |-> <<rnd.pos>>,
    isBoosting |-> FALSE,
    score |-> InitialScore,
    money |-> InitialMoney,
    kills |-> InitialKills,
    lastUpdate |-> 0 ]
NewPlayer(c, username, rnd) ==
  [ id |-> c,
    username |-> username,
    head |-> rnd.pos,
    direction |-> rnd.dir,
    speed |-> InitialSpeed,
    length |-> InitialLength,
    color |-> rnd.color,
    segments |-> <<rnd.pos>>,
    isBoosting |-> FALSE,
    score |-> InitialScore,
    money |-> InitialMoney,
    kills |-> InitialKills,
    lastUpdate |-> now ]

\* mutant: the guard looks for a PlayerState in the cached room, not at the flag
AlreadyInGame_WhileInRoom(w, c) ==
  /\ w.sockets[c].currentRoomId # Null
  /\ MapHas(w.gameRooms, w.sockets[c].currentRoomId)
  /\ MapHas(MapGet(w.gameRooms, w.sockets[c].currentRoomId), c)
\* mutant: the duplicate-join guard is missing
AlreadyInGame_Never(w, c) == FALSE
\* the duplicate-join guard
AlreadyInGame(w, c) == w.sockets[c].isPlayerInGame

\* mutant: the joiner is not taken out of the copy
GameStateSnapshot_WithSelf(room, c) == [players |-> room, timestamp |-> now]
\* otherPlayers = new Map(room); otherPlayers.delete(socket.id)
GameStateSnapshot(room, c) == [players |-> MapDelete(room, c), timestamp |-> now]

\* mutant: the connection is closed before roomFull is sent
RejectFull_CloseFirst(w, c, room) ==
  socketEmit(socketDisconnect(w, c), c, "roomFull",
             [message |-> "This room is full. Please try another room.",
              currentPlayers |-> MapSize(room), maxPlayers |-> MaxPlayersPerRoom])
\* the capacity branch: tell the joiner, then close its connection
RejectFull(w, c, room) ==
  socketDisconnect(
    socketEmit(w, c, "roomFull",
               [message |-> "This room is full. Please try another room.",
                currentPlayers |-> MapSize(room), maxPlayers |-> MaxPlayersPerRoom]),
    c)

joinGame(w, c, p, rnd) ==
  \* ({ roomId, region, username }) => ...: destructuring undefined throws
  IF IsMissing(p) THEN Throw(w)
  ELSE IF AlreadyInGame(w, c) THEN w
  ELSE
    LET roomName == RoomName(p.region, p.roomId)
        username == IF p.username # "" /\ p.username # "undefined"
                    THEN p.username ELSE w.sockets[c].username
        w1 == [w EXCEPT !.sockets[c].currentRoomId = roomName,
                        !.sockets[c].username = username,
                        !.sockets[c].rooms = @ \cup {roomName},
                        !.gameRooms = getOrCreateRoom(@, roomName)]
        room == MapGet(w1.gameRooms, roomName)
    IN IF RoomIsFull(room)
       THEN RejectFull(w1, c, room)
       ELSE
         LET newPlayer == NewPlayer(c, username, rnd)
             w2 == [RoomSet(w1, roomName, c, newPlayer) EXCEPT !.sockets[c].isPlayerInGame = TRUE]
             w3 == socketEmit(w2, c, "gameState",
                              GameStateSnapshot(MapGet(w2.gameRooms, roomName), c))
         IN socketToEmit(w3, c, roomName, "playerJoined",
                                 [player |-> newPlayer, timestamp |-> now])

----------------------------------------------------------------------------
(* socket.on('playerUpdate') *)

ValidHead(head) ==
  ~(Falsy(head) \/ typeof(head.x) # "number" \/ typeof(head.y) # "number")

\* mutant: the update also rebuilds the segments from the new head
UpdateState_WithSegments(player, u) ==
  [player EXCEPT
     !.head = u.head,
     !.direction = u.direction,
     !.speed = u.speed,
     !.length = u.length,
     !.isBoosting = u.isBoosting,
     !.segments = <<u.head>>,
     !.lastUpdate = now]
\* player.head = updateData.head; ...; player.lastUpdate = Date.now()
UpdateState(player, u) ==
  [player EXCEPT
     !.head = u.head,
     !.direction = u.direction,
     !.speed = u.speed,
     !.length = u.length,
     !.isBoosting = u.isBoosting,
     !.lastUpdate = now]

playerUpdate(w, c, u) ==
  IF ~InGameGuard(w, c) THEN w
  \* updateData.head of undefined throws
  ELSE IF IsMissing(u) THEN Throw(w)
  ELSE IF ~ValidHead(u.head) THEN w
  ELSE
    LET cur == w.sockets[c].currentRoomId
        player == UpdateState(MapGet(MapGet(w.gameRooms, cur), c), u)
    IN socketToEmit(RoomSet(w, cur, c, player), c, cur, "playerUpdate",
                            [id |-> c, head |-> player.head, direction |-> player.direction,
                             speed |-> player.speed, length |-> player.length,
                             isBoosting |-> player.isBoosting])

----------------------------------------------------------------------------
(* socket.on('playerStateUpdate') *)

\* mutant: the time stamp is laid down first and the payload over it
MergeState_PayloadLast(player, stateData) ==
  ObjectAssign(ObjectAssign(player, [lastUpdate |-> now]), stateData)
\* Object.assign(player, stateData, { lastUpdate: Date.now() })
MergeState(player, stateData) ==
  ObjectAssign(ObjectAssign(player, stateData), [lastUpdate |-> now])

\* mutant: a caller without a PlayerState gets one made of the payload
playerStateUpdate_Upsert(w, c, stateData) ==
  LET cur == w.sockets[c].currentRoomId IN
  IF cur = Null \/ ~MapHas(w.gameRooms, cur) THEN w
  ELSE
    LET room == MapGet(w.gameRooms, cur)
        old == IF MapHas(room, c) THEN MapGet(room, c) ELSE [id |-> c]
    IN socketToEmit(RoomSet(w, cur, c, MergeState(old, stateData)), c, cur,
                    "playerStateUpdate", ObjectAssign([id |-> c], stateData))
playerStateUpdate(w, c, stateData) ==
  IF ~InGameGuard(w, c) THEN w
  ELSE
    LET cur == w.sockets[c].currentRoomId
        player == MergeState(MapGet(MapGet(w.gameRooms, cur), c), stateData)
    IN socketToEmit(RoomSet(w, cur, c, player), c, cur, "playerStateUpdate",
                            ObjectAssign([id |-> c], stateData))

----------------------------------------------------------------------------
(* socket.on('playerRespawn') *)

\* mutant: the respawn keeps the balance and the kill count
RespawnState_KeepBalance(player, rnd) ==
  [player EXCEPT
     !.head = rnd.pos,
     !.direction = rnd.dir,
     !.speed = InitialSpeed,
     !.length = InitialLength,
     !.segments = <<rnd.pos>>,
     !.isBoosting = FALSE,
     !.score = InitialScore,
     !.lastUpdate = now]
RespawnState(player, rnd) ==
  [player EXCEPT
     !.head = rnd.pos,
     !.direction = rnd.dir,
     !.speed = InitialSpeed,
     !.length = InitialLength,
     !.segments = <<rnd.pos>>,
     !.isBoosting = FALSE,
     !.score = InitialScore,
     !.money = InitialMoney,
     !.kills = InitialKills,
     !.lastUpdate = now]

BalanceUpdateData(player, moneyGained, source) ==
  [playerId |-> player.id, newBalance |-> player.money, moneyGained |-> moneyGained,
   source |-> source, timestamp |-> now]

\* mutant: the two room broadcasts leave out the respawning player
playerRespawn_OthersOnly(w, c, rnd) ==
  IF ~InGameGuard(w, c) THEN w
  ELSE
    LET cur == w.sockets[c].currentRoomId
        old == MapGet(MapGet(w.gameRooms, cur), c)
    IN IF startsWith(old.id, "bot-") THEN w
       ELSE
         LET player == RespawnState(old, rnd)
             w1 == RoomSet(w, cur, c, player)
             w2 == socketEmit(w1, c, "balanceUpdate", BalanceUpdateData(player, 0, "respawn"))
             w3 == socketToEmit(w2, c, cur, "playerRespawned",
                                [playerId |-> player.id, username |-> player.username,
                                 newPosition |-> rnd.pos, newBalance |-> player.money,
                                 timestamp |-> now])
         IN socketToEmit(w3, c, cur, "balanceUpdate", BalanceUpdateData(player, 0, "respawn"))
playerRespawn(w, c, rnd) ==
  IF ~InGameGuard(w, c) THEN w
  ELSE
    LET cur == w.sockets[c].currentRoomId
        old == MapGet(MapGet(w.gameRooms, cur), c)
    IN IF startsWith(old.id, "bot-") THEN w
       ELSE
         LET player == RespawnState(old, rnd)
             w1 == RoomSet(w, cur, c, player)
             w2 == socketEmit(w1, c, "balanceUpdate", BalanceUpdateData(player, 0, "respawn"))
             w3 == ioToEmit(w2, cur, "playerRespawned",
                            [playerId |-> player.id, username |-> player.username,
                             newPosition |-> rnd.pos, newBalance |-> player.money,
                             timestamp |-> now])
         IN ioToEmit(w3, cur, "balanceUpdate", BalanceUpdateData(player, 0, "respawn"))

----------------------------------------------------------------------------
(* socket.on('playerKilled') *)

\* mutant: the kill is counted but the balance is not moved
CreditKill_NoTransfer(killer, moneyGained) == [killer EXCEPT !.kills = @ + 1]
\* mutant: crediting a kill also refreshes the killer's time stamp
CreditKill_Refreshes(killer, moneyGained) ==
  [killer EXCEPT !.money = @ + moneyGained, !.kills = @ + 1, !.lastUpdate = now]
\* killer.money += moneyGained; killer.kills += 1
CreditKill(killer, moneyGained) ==
  [killer EXCEPT !.money = @ + moneyGained, !.kills = @ + 1]

\* mutant: the broadcast reports the killer's money as it was before the transfer
PlayerKilledData_BeforeTransfer(killer, victim, moneyGained) ==
  [killerId |-> killer.id, killerUsername |-> killer.username,
   victimId |-> victim.id, victimUsername |-> victim.username,
   moneyGained |-> moneyGained, newKillerMoney |-> killer.money - moneyGained,
   newKillerKills |-> killer.kills, timestamp |-> now]
PlayerKilledData(killer, victim, moneyGained) ==
  [killerId |-> killer.id, killerUsername |-> killer.username,
   victimId |-> victim.id, victimUsername |-> victim.username,
   moneyGained |-> moneyGained, newKillerMoney |-> killer.money,
   newKillerKills |-> killer.kills, timestamp |-> now]

\* mutant: the room is told before the victim is removed
RemoveVictimSteps_EmitFirst(w, cur, victimId) ==
  << ioToEmit(w, cur, "playerLeft", PlayerLeftData(victimId)),
     RoomDelete(ioToEmit(w, cur, "playerLeft", PlayerLeftData(victimId)), cur, victimId) >>
\* room.delete(victimId); io.to(currentRoomId).emit('playerLeft', ...): the world
\* after the first statement and after the second
RemoveVictimSteps(w, cur, victimId) ==
  << RoomDelete(w, cur, victimId),
     ioToEmit(RoomDelete(w, cur, victimId), cur, "playerLeft", PlayerLeftData(victimId)) >>

\* mutant: the victim is announced as gone but stays in the room
RemoveVictim_KeepsVictim(w, cur, victimId) ==
  ioToEmit([w EXCEPT !.removed = @ \cup {<<cur, victimId>>}], cur,
           "playerLeft", PlayerLeftData(victimId))
\* the victim is removed from the room and the room is told
RemoveVictim(w, cur, victimId) == RemoveVictimSteps(w, cur, victimId)[2]

\* mutant: only the killer is tested for being a bot
IsRealKill_KillerOnly(killer, victim) == ~startsWith(killer.id, "bot-")
\* !isKillerBot && !isVictimBot
IsRealKill(killer, victim) ==
  ~startsWith(killer.id, "bot-") /\ ~startsWith(victim.id, "bot-")

\* mutant: a kill of a bot is not counted
CountBotKill_NotCounted(killer) == killer
\* killer.kills += 1 of the bot branch
CountBotKill(killer) == [killer EXCEPT !.kills = @ + 1]

\* the handler once killer and victim are found in the caller's room
ProcessKill(w, c, victimId) ==
  LET cur == w.sockets[c].currentRoomId
      room == MapGet(w.gameRooms, cur)
      killer == MapGet(room, c)
      victim == MapGet(room, victimId)
      isKillerBot == startsWith(killer.id, "bot-")
  IN IF IsRealKill(killer, victim)
     THEN
       LET moneyGained == victim.money
           killer2 == CreditKill(killer, moneyGained)
           \* killer and victim are one object when the caller names itself
           victim2 == IF victimId = c THEN killer2 ELSE victim
           w1 == RoomSet(w, cur, c, killer2)
           w2 == socketEmit(w1, c, "balanceUpdate",
                            BalanceUpdateData(killer2, moneyGained, "kill"))
           w3 == ioToEmit(w2, cur, "playerKilled",
                          PlayerKilledData(killer2, victim2, moneyGained))
           w4 == ioToEmit(w3, cur, "balanceUpdate",
                          BalanceUpdateData(killer2, moneyGained, "kill"))
       IN RemoveVictim(w4, cur, victimId)
     ELSE IF ~isKillerBot
     THEN
       LET killer2 == CountBotKill(killer)
           victim2 == IF victimId = c THEN killer2 ELSE victim
           w1 == RoomSet(w, cur, c, killer2)
           w2 == ioToEmit(w1, cur, "playerKilled", PlayerKilledData(killer2, victim2, 0))
       IN RemoveVictim(w2, cur, victimId)
     ELSE RemoveVictim(w, cur, victimId)

\* mutant: a victim that is not in the room is still announced as gone
playerKilled_LeftAnyway(w, c, victimId) ==
  IF ~InGameGuard(w, c) THEN w
  ELSE IF ~MapHas(MapGet(w.gameRooms, w.sockets[c].currentRoomId), victimId)
  THEN ioToEmit(w, w.sockets[c].currentRoomId, "playerLeft", PlayerLeftData(victimId))
  ELSE ProcessKill(w, c, victimId)
playerKilled(w, c, victimId) ==
  IF ~InGameGuard(w, c) THEN w
  ELSE IF ~MapHas(MapGet(w.gameRooms, w.sockets[c].currentRoomId), victimId) THEN w
  ELSE ProcessKill(w, c, victimId)

\* ({ victimId }) => ...: destructuring undefined throws before any guard
onPlayerKilled(w, c, payload) ==
  IF IsMissing(payload) THEN Throw(w) ELSE playerKilled(w, c, payload.victimId)

----------------------------------------------------------------------------
(* setInterval: stale player cleanup, and POST /api/cleanup-stale-players *)

\* mutant: the sweep waits twice the threshold
IsStale_TwiceThreshold(player, threshold) == now - player.lastUpdate > 2 * threshold
\* mutant: a player whose age equals the threshold is taken too
IsStale_AtThreshold(player, threshold) == now - player.lastUpdate >= threshold
IsStale(player, threshold) == now - player.lastUpdate > threshold

\* the players of a room the sweep removes, and those it leaves
StalePlayers(room, threshold) ==
  LET stale(e) == IsStale(e.v, threshold) IN SelectSeq(room, stale)
FreshPlayers(room, threshold) ==
  LET fresh(e) == ~IsStale(e.v, threshold) IN SelectSeq(room, fresh)

\* for (const [roomId, room] of gameRooms.entries()): in each room collect the
\* stale ids, remove each with a playerLeft to the room, then delete the room if
\* it is empty. The sockets in a room do not change during the sweep, and a room
\* is touched only in its own turn, so the outcome is written room by room.
\* mutant: a room is deleted only when this sweep removed a player from it
SweepRooms_OnlyEmptiedNow(w, threshold) ==
  LET rooms == w.gameRooms
      playersToRemove(i) == MapKeys(StalePlayers(rooms[i].v, threshold))
      left(i) == [j \in DOMAIN playersToRemove(i) |->
                    [ev |-> "playerLeft", to |-> InRoom(w, rooms[i].k),
                     data |-> PlayerLeftData(playersToRemove(i)[j])]]
      RECURSIVE leftFrom(_)
      leftFrom(i) == IF i > Len(rooms) THEN <<>> ELSE left(i) \o leftFrom(i + 1)
      swept == [i \in DOMAIN rooms |->
                  [k |-> rooms[i].k, v |-> FreshPlayers(rooms[i].v, threshold)]]
      kept(e) == MapSize(e.v) # 0 \/ MapSize(MapGet(rooms, e.k)) = 0
  IN [w EXCEPT !.gameRooms = SelectSeq(swept, kept),
               !.emitted = @ \o leftFrom(1),
               !.removed = @ \cup UNION { {<<rooms[i].k, playersToRemove(i)[j]>> :
                                             j \in DOMAIN playersToRemove(i)} :
                                          i \in DOMAIN rooms }]
SweepRooms(w, threshold) ==
  LET rooms == w.gameRooms
      playersToRemove(i) == MapKeys(StalePlayers(rooms[i].v, threshold))
      left(i) == [j \in DOMAIN playersToRemove(i) |->
                    [ev |-> "playerLeft", to |-> InRoom(w, rooms[i].k),
                     data |-> PlayerLeftData(playersToRemove(i)[j])]]
      RECURSIVE leftFrom(_)
      leftFrom(i) == IF i > Len(rooms) THEN <<>> ELSE left(i) \o leftFrom(i + 1)
      swept == [i \in DOMAIN rooms |->
                  [k |-> rooms[i].k, v |-> FreshPlayers(rooms[i].v, threshold)]]
      nonEmpty(e) == MapSize(e.v) # 0
  IN [w EXCEPT !.gameRooms = SelectSeq(swept, nonEmpty),
               !.emitted = @ \o leftFrom(1),
               !.removed = @ \cup UNION { {<<rooms[i].k, playersToRemove(i)[j]>> :
                                             j \in DOMAIN playersToRemove(i)} :
                                          i \in DOMAIN rooms }]

staleCleanup(w) == SweepRooms(w, staleThreshold)

\* app.post("/api/cleanup-stale-players"): the same sweep written out in the
\* order of the code, with its own threshold. The JSON response (totalCleaned,
\* roomsCleaned, remainingPlayers) goes to the HTTP caller and is not state.

\* mutant: a player whose age equals the threshold is taken too
manualIsStale_AtThreshold(player) == now - player.lastUpdate >= manualStaleThreshold
\* timeSinceUpdate > staleThreshold
manualIsStale(player) == now - player.lastUpdate > manualStaleThreshold

\* for (const playerId of playersToRemove): room.delete, then the broadcast
RECURSIVE manualRemove(_, _, _, _)
manualRemove(w, roomId, playersToRemove, j) ==
  IF j > Len(playersToRemove) THEN w
  ELSE manualRemove(ioToEmit(RoomDelete(w, roomId, playersToRemove[j]), roomId,
                             "playerLeft", PlayerLeftData(playersToRemove[j])),
                    roomId, playersToRemove, j + 1)

\* for (const [roomId, room] of gameRooms.entries()), from the i-th entry on
RECURSIVE manualSweep(_, _, _)
manualSweep(w, roomIds, i) ==
  IF i > Len(roomIds) THEN w
  ELSE LET roomId == roomIds[i]
           stale(e) == manualIsStale(e.v)
           playersToRemove == MapKeys(SelectSeq(MapGet(w.gameRooms, roomId), stale))
       IN manualSweep(DeleteRoomIfEmpty(manualRemove(w, roomId, playersToRemove, 1), roomId),
                      roomIds, i + 1)

manualCleanup(w) == manualSweep(w, MapKeys(w.gameRooms), 1)

----------------------------------------------------------------------------
(* getLeaderboard and the leaderboard setInterval *)

\* .map(p => ({ username, balance: p.money, kills, length }))
LeaderboardEntry(p) ==
  [username |-> p.username, balance |-> p.money, kills |-> p.kills, length |-> p.length]

\* Array.from(room.values()).filter(p => !p.id.startsWith('bot-'))
RealPlayers(room) ==
  LET real(e) == ~startsWith(e.v.id, "bot-")
      kept == SelectSeq(room, real)
  IN [i \in DOMAIN kept |-> kept[i].v]

\* mutant: the ranking is by ascending balance
SortByBalance_Ascending(entries) ==
  LET rank(i) == Cardinality({j \in DOMAIN entries :
                                \/ entries[j].balance < entries[i].balance
                                \/ entries[j].balance = entries[i].balance /\ j < i}) + 1
  IN [k \in DOMAIN entries |-> entries[CHOOSE i \in DOMAIN entries : rank(i) = k]]
\* .sort((a, b) => b.balance - a.balance): the sort is stable, so an entry comes
\* after the entries of greater balance and the earlier entries of equal balance
SortByBalance(entries) ==
  LET rank(i) == Cardinality({j \in DOMAIN entries :
                                \/ entries[j].balance > entries[i].balance
                                \/ entries[j].balance = entries[i].balance /\ j < i}) + 1
  IN [k \in DOMAIN entries |-> entries[CHOOSE i \in DOMAIN entries : rank(i) = k]]

\* .slice(0, n)
Slice(seq, n) == SubSeq(seq, 1, IF Len(seq) < n THEN Len(seq) ELSE n)

getLeaderboard(rooms, roomId) ==
  IF ~MapHas(rooms, roomId) THEN <<>>
  ELSE
    LET real == RealPlayers(MapGet(rooms, roomId))
        entries == [i \in DOMAIN real |-> LeaderboardEntry(real[i])]
    IN Slice(SortByBalance(entries), LeaderboardSize)

\* for (const [roomId, room] of gameRooms) if (room.size > 0) io.to(roomId).emit(...)
leaderboardBroadcast(w) ==
  LET rooms == w.gameRooms
      RECURSIVE from(_)
      from(i) ==
        IF i > Len(rooms) THEN <<>>
        ELSE (IF MapSize(rooms[i].v) > 0
              THEN << [ev |-> "leaderboardUpdate", to |-> InRoom(w, rooms[i].k),
                       data |-> getLeaderboard(rooms, rooms[i].k)] >>
              ELSE <<>>) \o from(i + 1)
  IN [w EXCEPT !.emitted = @ \o from(1)]

----------------------------------------------------------------------------
(* io.on("connection") *)

\* the username of the handshake, or a generated one
HandshakeUsername(q, generated) ==
  IF q = "" \/ q = "undefined" \/ q = "null" THEN generated ELSE q

NewSocket(q, generated) ==
  [status |-> "open",
   username |-> HandshakeUsername(q, generated),
   currentRoomId |-> Null,
   isPlayerInGame |-> FALSE,
   rooms |-> {},
   pendingJoins |-> {}]

onConnection(w, c, q, generated) ==
  [w EXCEPT !.sockets =
             [x \in DOMAIN w.sockets \cup {c} |->
                IF x = c THEN NewSocket(q, generated) ELSE w.sockets[x]]]

----------------------------------------------------------------------------
(* The state machine *)

\* the samples of Math.random() the handlers draw: generateSpawnPosition() (center
\* (2500, 2500), radius up to 2000), the direction in hundredths of a radian, and
\* generatePlayerColor()
JoinRandoms == { [pos |-> Pos(2500, 2500), dir |-> 0, color |-> "#00ff00"] }
RespawnRandoms == { [pos |-> Pos(3500, 2500), dir |-> 314, color |-> "#ff00ff"] }

World ==
  [gameRooms |-> gameRooms, onlineUsers |-> onlineUsers, sockets |-> sockets,
   emitted |-> <<>>, removed |-> removed, process |-> process]

\* the handler runs to completion once; w is its outcome
Run(outcome, op, c) ==
  \E w \in {outcome} :
    /\ process = "running"
    /\ process' = w.process
    /\ last' = [op |-> op, c |-> c]
    /\ gameRooms' = w.gameRooms
    /\ onlineUsers' = w.onlineUsers
    /\ sockets' = w.sockets
    /\ emitted' = w.emitted
    /\ removed' = w.removed
    /\ UNCHANGED <<now, isProduction>>

\* a handler run in a run that does not count accepted events
Apply(outcome, op, c) == Run(outcome, op, c) /\ UNCHANGED accepted

InitCommon ==
  /\ now = 0
  /\ isProduction = TRUE
  /\ onlineUsers = EmptyMap
  /\ emitted = <<>>
  /\ last = [op |-> "start", c |-> Null]
  /\ removed = {}
  /\ process = "running"

\* the server after the k connections of Silent(k) joined the first room at time 0;
\* with k = 0, the server right after start: no connection, no room
InitSeeded(k) ==
  /\ InitCommon
  /\ accepted = [joins |-> [r \in RoomNames |-> IF r = FirstRoom THEN k ELSE 0],
                 respawns |-> [r \in RoomNames |-> 0]]
  /\ sockets = [c \in {Silent(k)[i] : i \in 1..k} |->
                  [status |-> "open", username |-> "zed", currentRoomId |-> FirstRoom,
                   isPlayerInGame |-> TRUE, rooms |-> {FirstRoom},
                   pendingJoins |-> {}]]
  /\ gameRooms =
       IF k = 0 THEN EmptyMap
       ELSE << [k |-> FirstRoom,
                v |-> [i \in 1..k |->
                         [k |-> Silent(k)[i],
                          v |-> NewPlayer(Silent(k)[i], "zed",
                                          [pos |-> Pos(2500, 2500), dir |-> 0,
                                           color |-> "#00ff00"])]]] >>

Init == \E k \in {0, 1} : InitSeeded(k)
InitFull == InitSeeded(MaxPlayersPerRoom - 1)

Connect(c, q, g) ==
  /\ c \notin DOMAIN sockets
  /\ Apply(onConnection(World, c, q, g), "connection", c)

JoinGame(c, p, rnd) ==
  /\ IsOpen(World, c)
  /\ Apply(joinGame(World, c, p, rnd), "joinGame", c)

PlayerUpdate(c, u) ==
  /\ IsOpen(World, c)
  /\ Apply(playerUpdate(World, c, u), "playerUpdate", c)

PlayerStateUpdate(c, d) ==
  /\ IsOpen(World, c)
  /\ Apply(playerStateUpdate(World, c, d), "playerStateUpdate", c)

PlayerRespawn(c, rnd) ==
  /\ IsOpen(World, c)
  /\ Apply(playerRespawn(World, c, rnd), "playerRespawn", c)

\* joinGame in a run that counts: the join is accepted when it puts the
\* connection into the room it names
JoinGameCounted(c, p, rnd) ==
  /\ IsOpen(World, c)
  /\ Run(joinGame(World, c, p, rnd), "joinGame", c)
  /\ LET r == RoomName(p.region, p.roomId)
         isIn(rooms) == MapHas(rooms, r) /\ MapHas(MapGet(rooms, r), c)
     IN accepted' = IF ~isIn(gameRooms) /\ isIn(gameRooms')
                    THEN [accepted EXCEPT !.joins[r] = @ + 1]
                    ELSE accepted

\* playerRespawn in a run that counts: an accepted respawn is one that was
\* announced; the run makes at most MaxRespawns of them
PlayerRespawnCounted(c, rnd) ==
  /\ IsOpen(World, c)
  /\ \A r \in RoomNames : accepted.respawns[r] < MaxRespawns
  /\ Run(playerRespawn(World, c, rnd), "playerRespawn", c)
  /\ accepted' = IF emitted' # <<>>
                 THEN [accepted EXCEPT !.respawns[sockets[c].currentRoomId] = @ + 1]
                 ELSE accepted

PlayerKilled(c, victimId) ==
  /\ IsOpen(World, c)
  /\ Apply(playerKilled(World, c, victimId), "playerKilled", c)

\* playerKilled with any argument, or none
PlayerKilledSent(c, payload) ==
  /\ IsOpen(World, c)
  /\ Apply(onPlayerKilled(World, c, payload), "playerKilled", c)

PresenceJoin(c, username) ==
  /\ IsOpen(World, c)
  /\ Apply(presenceJoin(World, c, username), "join", c)

\* a 'join' handler of c that waits at its await resumes, whether c is open or not
PresenceJoinResume(c, username, found) ==
  /\ c \in DOMAIN sockets
  /\ username \in sockets[c].pendingJoins
  /\ Apply(presenceJoinResume(World, c, username, found), "joinResume", c)

Disconnect(c) ==
  /\ IsOpen(World, c)
  /\ Apply(socketDisconnect(World, c), "disconnect", c)

ReaperTick ==
  Apply(staleCleanup(World), "staleCleanup", Null)

ManualCleanup ==
  Apply(manualCleanup(World), "manualCleanup", Null)

LeaderboardTick ==
  Apply(leaderboardBroadcast(World), "leaderboard", Null)

AdvanceClock ==
  /\ process = "running"
  /\ now + ClockStep <= MaxTicks * ClockStep
  /\ now' = now + ClockStep
  /\ emitted' = <<>>
  /\ last' = [op |-> "clock", c |-> Null]
  /\ UNCHANGED <<gameRooms, onlineUsers, sockets, isProduction, removed, process, accepted>>

\* the handlers of the game channel with clients that send no field in
\* playerStateUpdate, the reaper and the clock
Next ==
  \/ \E c \in Active, g \in GeneratedUsernames : Connect(c, QueryUsername(c), g)
  \/ \E c \in Active, p \in JoinPayloads, rnd \in JoinRandoms : JoinGame(c, p, rnd)
  \/ \E c \in Active, u \in UpdatePayloads : PlayerUpdate(c, u)
  \/ \E c \in Active : \E d \in StatePayloads : PlayerStateUpdate(c, d)
  \/ \E c \in Active, rnd \in RespawnRandoms : PlayerRespawn(c, rnd)
  \/ \E c \in Active, victimId \in VictimIds : PlayerKilled(c, victimId)
  \/ \E c \in Active : Disconnect(c)
  \/ ReaperTick
  \/ AdvanceClock

\* the first connection also overwrites money, kills and id; the clock stands still
NextCheat ==
  \/ \E c \in Active, g \in GeneratedUsernames : Connect(c, QueryUsername(c), g)
  \/ \E c \in Active, p \in JoinPayloads, rnd \in JoinRandoms : JoinGame(c, p, rnd)
  \/ \E c \in Active, u \in UpdatePayloads : PlayerUpdate(c, u)
  \/ \E c \in Active : \E d \in CheatPayloads(c) : PlayerStateUpdate(c, d)
  \/ \E c \in Active, rnd \in RespawnRandoms : PlayerRespawn(c, rnd)
  \/ \E c \in Active, victimId \in VictimIds : PlayerKilled(c, victimId)
  \/ \E c \in Active : Disconnect(c)

\* a server that starts with a room one short of its capacity
NextFull ==
  \/ \E c \in Active, g \in GeneratedUsernames : Connect(c, QueryUsername(c), g)
  \/ \E c \in Active, p \in JoinPayloads, rnd \in JoinRandoms : JoinGame(c, p, rnd)
  \/ \E c \in Active, victimId \in VictimIds : PlayerKilled(c, victimId)
  \/ \E c \in Active : Disconnect(c)
  \/ ReaperTick
  \/ AdvanceClock

\* the handlers that keep a player fresh or take it away, and the reaper
NextReaper ==
  \/ \E c \in Active, g \in GeneratedUsernames : Connect(c, QueryUsername(c), g)
  \/ \E c \in Active, p \in JoinPayloads, rnd \in JoinRandoms : JoinGame(c, p, rnd)
  \/ \E c \in Active, u \in UpdatePayloads : PlayerUpdate(c, u)
  \/ \E c \in Active : Disconnect(c)
  \/ ReaperTick
  \/ AdvanceClock

\* players that join, kill each other or themselves and leave, and the reaper
NextSweep ==
  \/ \E c \in Active, g \in GeneratedUsernames : Connect(c, QueryUsername(c), g)
  \/ \E c \in Active, p \in JoinPayloads, rnd \in JoinRandoms : JoinGame(c, p, rnd)
  \/ \E c \in Active, victimId \in Active : PlayerKilled(c, victimId)
  \/ \E c \in Active : Disconnect(c)
  \/ ReaperTick
  \/ AdvanceClock

\* players that join, move, kill each other or themselves and leave, the reaper
\* and an operator who posts to the cleanup endpoint
NextManual ==
  \/ \E c \in Active, g \in GeneratedUsernames : Connect(c, QueryUsername(c), g)
  \/ \E c \in Active, p \in JoinPayloads, rnd \in JoinRandoms : JoinGame(c, p, rnd)
  \/ \E c \in Active, u \in UpdatePayloads : PlayerUpdate(c, u)
  \/ \E c \in Active, victimId \in Active : PlayerKilled(c, victimId)
  \/ \E c \in Active : Disconnect(c)
  \/ ReaperTick
  \/ ManualCleanup
  \/ AdvanceClock

\* clients that also send events without their argument, or with an argument
\* that lacks its fields
NextMalformed ==
  \/ \E c \in Active, g \in GeneratedUsernames : Connect(c, QueryUsername(c), g)
  \/ \E c \in Active, p \in JoinPayloads \cup MalformedJoins, rnd \in JoinRandoms :
       JoinGame(c, p, rnd)
  \/ \E c \in Active, u \in UpdatePayloads \cup {Undefined} : PlayerUpdate(c, u)
  \/ \E c \in Active : \E d \in StatePayloads : PlayerStateUpdate(c, d)
  \/ \E c \in Active, rnd \in RespawnRandoms : PlayerRespawn(c, rnd)
  \/ \E c \in Active, payload \in KilledPayloads : PlayerKilledSent(c, payload)
  \/ \E c \in Active : Disconnect(c)

\* the handlers that stamp lastUpdate or are claimed not to, in one room, with
\* clients that also send heads that are not finite and a lastUpdate of their own,
\* and the clock
NextUpdates ==
  \/ \E c \in Active, g \in GeneratedUsernames : Connect(c, QueryUsername(c), g)
  \/ \E c \in Active, p \in FirstRoomJoins, rnd \in JoinRandoms : JoinGame(c, p, rnd)
  \/ \E c \in Active, u \in UpdatePayloads \cup NonFiniteUpdates : PlayerUpdate(c, u)
  \/ \E c \in Active : \E d \in StatePayloads \cup {SegmentSync} : PlayerStateUpdate(c, d)
  \/ \E c \in Active, rnd \in RespawnRandoms : PlayerRespawn(c, rnd)
  \/ \E c \in Active, victimId \in Active : PlayerKilled(c, victimId)
  \/ \E c \in Active : Disconnect(c)
  \/ AdvanceClock

\* a room of more players than the leaderboard lists, in which balances move by
\* kills and by a client that overwrites its own, and the leaderboard timer
NextBoard ==
  \/ \E c \in Active, g \in GeneratedUsernames : Connect(c, QueryUsername(c), g)
  \/ \E c \in Active, p \in JoinPayloads, rnd \in JoinRandoms : JoinGame(c, p, rnd)
  \/ \E c \in Active : \E d \in CheatPayloads(c) : PlayerStateUpdate(c, d)
  \/ \E c \in Active, victimId \in VictimIds : PlayerKilled(c, victimId)
  \/ \E c \in Active : Disconnect(c)
  \/ LeaderboardTick

\* every source of a game event: the handlers, the cleanup timer and the
\* leaderboard timer, over two rooms, one of which starts with a silent player
NextRooms ==
  \/ \E c \in Active, g \in GeneratedUsernames : Connect(c, QueryUsername(c), g)
  \/ \E c \in Active, p \in JoinPayloads, rnd \in JoinRandoms : JoinGame(c, p, rnd)
  \/ \E c \in Active, u \in UpdatePayloads : PlayerUpdate(c, u)
  \/ \E c \in Active : \E d \in StatePayloads : PlayerStateUpdate(c, d)
  \/ \E c \in Active, rnd \in RespawnRandoms : PlayerRespawn(c, rnd)
  \/ \E c \in Active, victimId \in Active : PlayerKilled(c, victimId)
  \/ \E c \in Active : Disconnect(c)
  \/ ReaperTick
  \/ LeaderboardTick
  \/ AdvanceClock

\* the presence registry: connections that announce usernames, whose handlers
\* resume later, that play in a room and that go away
NextPresence ==
  \/ \E c \in Active, g \in GeneratedUsernames : Connect(c, QueryUsername(c), g)
  \/ \E c \in Active, username \in PresenceNames : PresenceJoin(c, username)
  \/ \E c \in Active, username \in PresenceNames, found \in BOOLEAN :
       PresenceJoinResume(c, username, found)
  \/ \E c \in Active, p \in FirstRoomJoins, rnd \in JoinRandoms : JoinGame(c, p, rnd)
  \/ \E c \in Active : Disconnect(c)

\* the economy with accepted joins and respawns counted: clients whose
\* playerStateUpdate carries no money field
NoMoneyPayloads(c) == {d \in CheatPayloads(c) : "money" \notin DOMAIN d}
NextEconomy ==
  \/ \E c \in Active, g \in GeneratedUsernames : Connect(c, QueryUsername(c), g)
  \/ \E c \in Active, p \in JoinPayloads, rnd \in JoinRandoms : JoinGameCounted(c, p, rnd)
  \/ \E c \in Active : \E d \in NoMoneyPayloads(c) : PlayerStateUpdate(c, d)
  \/ \E c \in Active, rnd \in RespawnRandoms : PlayerRespawnCounted(c, rnd)
  \/ \E c \in Active, victimId \in VictimIds : PlayerKilled(c, victimId)
  \/ \E c \in Active : Disconnect(c)

Spec == Init /\ [][Next]_vars
SpecEconomy == Init /\ [][NextEconomy]_vars
SpecPresence == Init /\ [][NextPresence]_vars
SpecRooms == InitSeeded(1) /\ [][NextRooms]_vars
SpecBoard == InitSeeded(LeaderboardSize + 1) /\ [][NextBoard]_vars
\* one player is in the first room and stays silent
SpecUpdates == InitSeeded(1) /\ [][NextUpdates]_vars
SpecMalformed == Init /\ [][NextMalformed]_vars
\* setInterval keeps firing the cleanup callback as long as the process runs
SpecSweep == Init /\ [][NextSweep]_vars /\ WF_vars(ReaperTick)
SpecManual == Init /\ [][NextManual]_vars
SpecReaper == Init /\ [][NextReaper]_vars /\ WF_vars(ReaperTick)
SpecCheat == Init /\ [][NextCheat]_vars
SpecFull == InitFull /\ [][NextFull]_vars

----------------------------------------------------------------------------
(* Reading the state *)

TargetRoom(p) == RoomName(p.region, p.roomId)
\* the player map stored under roomName, empty when there is no such room
RoomOf(roomName) ==
  IF MapHas(gameRooms, roomName) THEN MapGet(gameRooms, roomName) ELSE EmptyMap
PlayersOf(roomName) == MapKeySet(RoomOf(roomName))
PlayerAt(roomName, id) == MapGet(RoomOf(roomName), id)
\* every id that is a key of some room
AllPlayerIds == UNION {MapKeySet(gameRooms[i].v) : i \in DOMAIN gameRooms}
\* the places <<i, j>> of the store where id is a key
Memberships(id) ==
  UNION { {<<i, j>> : j \in {n \in DOMAIN gameRooms[i].v : gameRooms[i].v[n].k = id}}
          : i \in DOMAIN gameRooms }
\* the events of a name among the events the last handler emitted
EmittedOf(ev) == {i \in DOMAIN emitted : emitted[i].ev = ev}
LastWas(op, c) == last.op = op /\ last.c = c

----------------------------------------------------------------------------
(* C1: no room ever holds more than MaxPlayersPerRoom (80) players, and a      *)
(* joinGame aimed at a room that already holds 80 players leaves that room's   *)
(* player map exactly as it was, inserts no PlayerState for the joiner in any  *)
(* room and, when the joiner was not in a game, sends it roomFull.             *)

RoomsWithinCapacity ==
  \A i \in DOMAIN gameRooms : MapSize(gameRooms[i].v) <= MaxPlayersPerRoom

JoinFullLeavesRoom ==
  \A c \in Active, p \in JoinPayloads, rnd \in JoinRandoms :
    ( /\ LastWas("joinGame", c)'
      /\ MapSize(RoomOf(TargetRoom(p))) >= MaxPlayersPerRoom
      /\ JoinGame(c, p, rnd) )
    => /\ RoomOf(TargetRoom(p))' = RoomOf(TargetRoom(p))
       /\ \A r \in RoomNames : c \in PlayersOf(r)' => c \in PlayersOf(r)
       /\ ~sockets[c].isPlayerInGame => EmittedOf("roomFull")' # {}

C1_RoomCapacity == []RoomsWithinCapacity /\ [][JoinFullLeavesRoom]_vars

\* a join was rejected at a room of 80 players, and the joiner is in no room
C1_Witness ==
  /\ last.op = "joinGame"
  /\ EmittedOf("roomFull") # {}
  /\ \E r \in RoomNames : MapSize(RoomOf(r)) = MaxPlayersPerRoom
  /\ last.c \notin AllPlayerIds

----------------------------------------------------------------------------
(* C4: a connection id is a key at no more than one place of the Room Store:   *)
(* in at most one room, and at most once there.                                *)

C4_OneMembership == \A id \in AllPlayerIds : Cardinality(Memberships(id)) = 1

\* a joinGame was handled on a connection that already is in a room
C4_Witness ==
  /\ last.op = "joinGame"
  /\ emitted = <<>>
  /\ sockets[last.c].isPlayerInGame
  /\ last.c \in AllPlayerIds

----------------------------------------------------------------------------
(* C7: a joinGame rejected because the room holds 80 players first sends the   *)
(* joiner roomFull with currentPlayers = 80 and maxPlayers = 80, while its     *)
(* connection is still open, then closes the connection; after the disconnect  *)
(* handling the room holds the same 80 players.                                *)

RoomFullThenClosed ==
  \A c \in Active, p \in JoinPayloads, rnd \in JoinRandoms :
    ( /\ LastWas("joinGame", c)'
      /\ ~sockets[c].isPlayerInGame
      /\ MapSize(RoomOf(TargetRoom(p))) = MaxPlayersPerRoom
      /\ JoinGame(c, p, rnd) )
    => /\ Len(emitted') >= 1
       /\ emitted'[1].ev = "roomFull"
       /\ emitted'[1].to = {c}
       /\ emitted'[1].data.currentPlayers = 80
       /\ emitted'[1].data.maxPlayers = 80
       /\ sockets'[c].status = "closed"
       /\ RoomOf(TargetRoom(p))' = RoomOf(TargetRoom(p))
       /\ MapSize(RoomOf(TargetRoom(p))') = 80

C7_RoomFullEvent == [][RoomFullThenClosed]_vars

\* the joiner got roomFull for a room of 80, and its connection is closed
C7_Witness ==
  /\ last.op = "joinGame"
  /\ Len(emitted) >= 1
  /\ emitted[1].ev = "roomFull"
  /\ emitted[1].to = {last.c}
  /\ emitted[1].data.currentPlayers = 80
  /\ sockets[last.c].status = "closed"
  /\ MapSize(RoomOf(sockets[last.c].currentRoomId)) = 80

----------------------------------------------------------------------------
(* C2: every PlayerState of every room has money >= 0, after any sequence of   *)
(* joinGame, playerUpdate, playerStateUpdate, playerKilled, playerRespawn,     *)
(* disconnect and reaper-tick events.                                          *)

C2_MoneyNonNegative ==
  \A i \in DOMAIN gameRooms : \A j \in DOMAIN gameRooms[i].v :
    gameRooms[i].v[j].v.money >= 0

----------------------------------------------------------------------------
(* C3: a playerKilled accepted between two non-bot players, both in the        *)
(* caller's room, leaves the killer with its money plus the victim's money and *)
(* one more kill, leaves the victim absent from the room, and changes no other *)
(* player's money or kills in any room.                                        *)

IsHuman(player) == player.id[1] # "bot-"
\* the kill of v by c is one the server accepts, between two non-bot players
KillAccepted(c, v) ==
  /\ c # v
  /\ sockets[c].isPlayerInGame
  /\ sockets[c].currentRoomId # Null
  /\ {c, v} \subseteq PlayersOf(sockets[c].currentRoomId)
  /\ IsHuman(PlayerAt(sockets[c].currentRoomId, c))
  /\ IsHuman(PlayerAt(sockets[c].currentRoomId, v))

KillConserves ==
  \A c \in Active, v \in VictimIds :
    (LastWas("playerKilled", c)' /\ KillAccepted(c, v) /\ PlayerKilled(c, v))
    => LET r == sockets[c].currentRoomId IN
       /\ c \in PlayersOf(r)'
       /\ PlayerAt(r, c)'.money = PlayerAt(r, c).money + PlayerAt(r, v).money
       /\ PlayerAt(r, c)'.kills = PlayerAt(r, c).kills + 1
       /\ v \notin PlayersOf(r)'
       /\ \A q \in RoomNames : \A id \in PlayersOf(q) \ {c, v} :
            /\ id \in PlayersOf(q)'
            /\ PlayerAt(q, id)'.money = PlayerAt(q, id).money
            /\ PlayerAt(q, id)'.kills = PlayerAt(q, id).kills
       /\ \A q \in RoomNames : PlayersOf(q)' \subseteq PlayersOf(q)

C3_KillConservation == [][KillConserves]_vars

\* a kill that moved a starting balance was broadcast in a room where a third
\* player looks on
C3_Witness ==
  /\ last.op = "playerKilled"
  /\ \E i \in EmittedOf("playerKilled") : emitted[i].data.moneyGained = InitialMoney
  /\ \E r \in RoomNames :
       /\ last.c \in PlayersOf(r)
       /\ PlayerAt(r, last.c).money = 2 * InitialMoney
       /\ PlayerAt(r, last.c).kills = 1
       /\ PlayersOf(r) \ {last.c} # {}
       /\ \E v \in Active : <<r, v>> \in removed

----------------------------------------------------------------------------
(* C6: after an accepted playerRespawn by a non-bot player, its money is 1.00, *)
(* its kills 0 and its length 10 whatever they were before, and a second       *)
(* playerRespawn leaves the three at those values.                             *)

RespawnAccepted(c) ==
  /\ sockets[c].isPlayerInGame
  /\ sockets[c].currentRoomId # Null
  /\ c \in PlayersOf(sockets[c].currentRoomId)
  /\ IsHuman(PlayerAt(sockets[c].currentRoomId, c))

IsReset(player) == player.money = 100 /\ player.kills = 0 /\ player.length = 10

RespawnResets ==
  \A c \in Active, rnd \in RespawnRandoms :
    (LastWas("playerRespawn", c)' /\ RespawnAccepted(c) /\ PlayerRespawn(c, rnd))
    => LET r == sockets[c].currentRoomId IN
       /\ c \in PlayersOf(r)'
       /\ IsReset(PlayerAt(r, c)')

\* in a state reached by an accepted respawn, the handler applied once more
\* gives the same three values
RespawnAgainSame ==
  \A c \in Active, rnd \in RespawnRandoms :
    (LastWas("playerRespawn", c) /\ RespawnAccepted(c))
    => LET r == sockets[c].currentRoomId
           again == playerRespawn(World, c, rnd)
       IN IsReset(MapGet(MapGet(again.gameRooms, r), c))

C6_RespawnResets == [][RespawnResets]_vars /\ []RespawnAgainSame

\* a player has respawned in the room where it had killed the other player (who is
\* still connected, and no reaper tick can have removed it)
C6_Witness ==
  /\ last.op = "playerRespawn"
  /\ EmittedOf("playerRespawned") # {}
  /\ \E r \in RoomNames :
       /\ last.c \in PlayersOf(r)
       /\ IsReset(PlayerAt(r, last.c))
       /\ now = 0
       /\ \E id \in Active \ {last.c} :
            <<r, id>> \in removed /\ sockets[id].status = "open"

----------------------------------------------------------------------------
(* C8: an accepted playerUpdate sent by connection A in room R is broadcast as *)
(* one playerUpdate event with id = A and the reported head, delivered to      *)
(* every other connection in R and never to A itself.                          *)

\* the connections in room R: the open sockets that hold a PlayerState in R or
\* are subscribed to R
ConnectionsIn(r) ==
  {s \in DOMAIN sockets : /\ sockets[s].status = "open"
                          /\ (s \in PlayersOf(r) \/ r \in sockets[s].rooms)}

UpdateAccepted(c, u) ==
  /\ sockets[c].isPlayerInGame
  /\ sockets[c].currentRoomId # Null
  /\ c \in PlayersOf(sockets[c].currentRoomId)
  /\ u.head # Undefined
  /\ u.head.x.type = "number"
  /\ u.head.y.type = "number"

UpdateReachesOthers ==
  \A c \in Active, u \in UpdatePayloads :
    (LastWas("playerUpdate", c)' /\ UpdateAccepted(c, u) /\ PlayerUpdate(c, u))
    => LET r == sockets[c].currentRoomId IN
       /\ Len(emitted') = 1
       /\ emitted'[1].ev = "playerUpdate"
       /\ emitted'[1].data.id = c
       /\ emitted'[1].data.head = u.head
       /\ c \notin emitted'[1].to
       /\ ConnectionsIn(r) \ {c} \subseteq emitted'[1].to

C8_UpdateBroadcast == [][UpdateReachesOthers]_vars

\* an update with head (10, 20) was delivered to another player of the room
C8_Witness ==
  /\ last.op = "playerUpdate"
  /\ Len(emitted) = 1
  /\ emitted[1].ev = "playerUpdate"
  /\ emitted[1].data.id = last.c
  /\ emitted[1].data.head = Pos(10, 20)
  /\ \E b \in Active \ {last.c} :
       /\ b \in emitted[1].to
       /\ b \in PlayersOf(sockets[last.c].currentRoomId)

----------------------------------------------------------------------------
(* C9: the playerKilled broadcast of an accepted kill between two non-bot      *)
(* players carries moneyGained = the victim's money just before the kill,      *)
(* newKillerMoney = the killer's money just after the transfer and             *)
(* newKillerKills = the killer's kill count after the increment.               *)

KillBroadcastFigures ==
  \A c \in Active, v \in VictimIds :
    (LastWas("playerKilled", c)' /\ KillAccepted(c, v) /\ PlayerKilled(c, v))
    => LET r == sockets[c].currentRoomId IN
       /\ Cardinality(EmittedOf("playerKilled")') = 1
       /\ \A i \in EmittedOf("playerKilled")' :
            /\ emitted'[i].data.killerId = c
            /\ emitted'[i].data.victimId = v
            /\ emitted'[i].data.moneyGained = PlayerAt(r, v).money
            /\ emitted'[i].data.newKillerMoney = PlayerAt(r, c).money + PlayerAt(r, v).money
            /\ emitted'[i].data.newKillerMoney = PlayerAt(r, c)'.money
            /\ emitted'[i].data.newKillerKills = PlayerAt(r, c).kills + 1
            /\ emitted'[i].data.newKillerKills = PlayerAt(r, c)'.kills
            /\ c \in emitted'[i].to

C9_KillBroadcast == [][KillBroadcastFigures]_vars

\* killer 1.00 and victim 1.00: the broadcast shows newKillerMoney 2.00, newKillerKills 1
C9_Witness ==
  /\ last.op = "playerKilled"
  /\ \E i \in EmittedOf("playerKilled") :
       /\ emitted[i].data.killerId = last.c
       /\ emitted[i].data.victimId \in Active \ {last.c}
       /\ emitted[i].data.moneyGained = 100
       /\ emitted[i].data.newKillerMoney = 200
       /\ emitted[i].data.newKillerKills = 1

----------------------------------------------------------------------------
(* C10: the gameState snapshot sent to a connection on its accepted joinGame   *)
(* holds exactly the players of the room's mapping at that moment other than   *)
(* the joiner: never the recipient, never a player that a kill, a disconnect   *)
(* or the reaper had removed from that room.                                   *)

JoinAccepted(c, p) ==
  /\ ~sockets[c].isPlayerInGame
  /\ MapSize(RoomOf(TargetRoom(p))) < MaxPlayersPerRoom

SnapshotIsRoomButJoiner ==
  \A c \in Active, p \in JoinPayloads, rnd \in JoinRandoms :
    (LastWas("joinGame", c)' /\ JoinAccepted(c, p) /\ JoinGame(c, p, rnd))
    => LET r == TargetRoom(p) IN
       /\ Cardinality(EmittedOf("gameState")') = 1
       /\ \A i \in EmittedOf("gameState")' :
            LET players == emitted'[i].data.players IN
            /\ emitted'[i].to = {c}
            /\ MapKeySet(players) = PlayersOf(r)' \ {c}
            /\ MapKeySet(players) = PlayersOf(r)
            /\ \A id \in MapKeySet(players) : MapGet(players, id) = PlayerAt(r, id)'
            /\ c \notin MapKeySet(players)
            /\ \A id \in MapKeySet(players) : <<r, id>> \notin removed

C10_GameStateSnapshot == [][SnapshotIsRoomButJoiner]_vars

\* a connection joined a room from which a player had been removed and got a
\* snapshot holding the one player left there
C10_Witness ==
  /\ last.op = "joinGame"
  /\ \E i \in EmittedOf("gameState") :
       /\ emitted[i].to = {last.c}
       /\ MapSize(emitted[i].data.players) = 1
       /\ \E id \in Active \cup {SocketId(3)} :
            /\ <<sockets[last.c].currentRoomId, id>> \in removed
            /\ id \notin MapKeySet(emitted[i].data.players)

----------------------------------------------------------------------------
(* C5: a player whose lastUpdate is older than the staleness threshold when    *)
(* the reaper ticks is absent from its room after that tick, and a room that   *)
(* the removal leaves without players is absent from the Room Store after the  *)
(* same tick; so, the reaper timer being fair, a stale player that sends no    *)
(* further accepted update is eventually removed.                              *)

Seen == Active \cup {SocketId(3)}
StaleIn(r, id) ==
  /\ id \in PlayersOf(r)
  /\ now - PlayerAt(r, id).lastUpdate > (IF isProduction THEN 30000 ELSE 60000)

ReaperRemoves ==
  (last'.op = "staleCleanup" /\ ReaperTick)
  => \A r \in RoomNames :
       /\ \A id \in Seen : StaleIn(r, id) => id \notin PlayersOf(r)'
       /\ \A id \in PlayersOf(r) : ~StaleIn(r, id) => id \in PlayersOf(r)'
       /\ ( /\ \E id \in Seen : StaleIn(r, id)
            /\ \A id \in PlayersOf(r) : StaleIn(r, id) )
          => ~MapHas(gameRooms', r)

\* a stale player does not stay: it is removed, unless an accepted update made it
\* fresh again
StaleEventuallyGone ==
  \A r \in RoomNames, id \in Seen : StaleIn(r, id) ~> ~StaleIn(r, id)

C5_ReaperRemovesStale == [][ReaperRemoves]_vars /\ StaleEventuallyGone

\* a reaper tick removed a player that had gone stale and deleted its room, which
\* the removal had emptied
C5_Witness ==
  /\ last.op = "staleCleanup"
  /\ \E i \in EmittedOf("playerLeft") : \E r \in RoomNames :
       /\ <<r, emitted[i].data.playerId>> \in removed
       /\ ~MapHas(gameRooms, r)

----------------------------------------------------------------------------
(* C11: between event handlers every room of the Room Store has at least one   *)
(* player: a handler whose removal of a player (kill, disconnect, reaping)     *)
(* empties a room's mapping also deletes the room from the store.              *)

C11_NoEmptyRoom == \A i \in DOMAIN gameRooms : MapSize(gameRooms[i].v) >= 1

----------------------------------------------------------------------------
(* C12: once a connection's PlayerState has been removed from its room (as a   *)
(* kill victim, by the reaper or by disconnect), no later event on that        *)
(* connection, joinGame included, creates a PlayerState for it again.          *)

\* the connections that had a PlayerState removed
Terminated == {pair[2] : pair \in removed}

StaysTerminated == \A id \in Terminated : id \notin AllPlayerIds
RemovedIsForever == removed \subseteq removed'

C12_TerminatedForGood == []StaysTerminated /\ [][RemovedIsForever]_vars

\* a connection that was removed from its room and is still open has sent
\* joinGame: nothing was sent back and it has no PlayerState
C12_Witness ==
  /\ last.op = "joinGame"
  /\ last.c \in Terminated
  /\ sockets[last.c].status = "open"
  /\ emitted = <<>>
  /\ last.c \notin AllPlayerIds
  /\ gameRooms # EmptyMap

----------------------------------------------------------------------------
(* C13: a playerUpdate, playerStateUpdate, playerKilled or playerRespawn from  *)
(* a connection that is not InGame (it never sent joinGame, or it no longer    *)
(* has a PlayerState in its room) changes nothing in the Room Store and emits  *)
(* no event.                                                                   *)

InGame(c) ==
  /\ sockets[c].isPlayerInGame
  /\ sockets[c].currentRoomId # Null
  /\ c \in PlayersOf(sockets[c].currentRoomId)

GameEventOf(c) ==
  \/ \E u \in UpdatePayloads : PlayerUpdate(c, u)
  \/ \E d \in StatePayloads \cup CheatPayloads(c) : PlayerStateUpdate(c, d)
  \/ \E v \in VictimIds : PlayerKilled(c, v)
  \/ \E rnd \in RespawnRandoms : PlayerRespawn(c, rnd)

NotInGameIgnored ==
  \A c \in Active :
    ( /\ last'.c = c
      /\ last'.op \in {"playerUpdate", "playerStateUpdate", "playerKilled", "playerRespawn"}
      /\ c \in DOMAIN sockets
      /\ ~InGame(c)
      /\ GameEventOf(c) )
    => /\ gameRooms' = gameRooms
       /\ emitted' = <<>>

C13_NotInGameIgnored == [][NotInGameIgnored]_vars

\* a connection that lost its PlayerState to a kill, in a room that still has a
\* player, sent a game event and nothing came of it
C13_Witness ==
  /\ last.op \in {"playerUpdate", "playerStateUpdate", "playerKilled", "playerRespawn"}
  /\ last.c \in Terminated
  /\ sockets[last.c].status = "open"
  /\ emitted = <<>>
  /\ now = 0
  /\ PlayersOf(sockets[last.c].currentRoomId) # {}

----------------------------------------------------------------------------
(* C14: a playerKilled whose victimId names no player of the caller's own room *)
(* (an unknown id, a player of another room, a player already removed) is a    *)
(* no-op: no money or kills change, no player leaves any room, and no          *)
(* playerKilled, balanceUpdate or playerLeft event is emitted.                 *)

KillOfAbsentIgnored ==
  \A c \in Active, v \in VictimIds :
    ( /\ LastWas("playerKilled", c)'
      /\ c \in DOMAIN sockets
      /\ InGame(c)
      /\ v \notin PlayersOf(sockets[c].currentRoomId)
      /\ PlayerKilled(c, v) )
    => /\ gameRooms' = gameRooms
       /\ EmittedOf("playerKilled")' = {}
       /\ EmittedOf("balanceUpdate")' = {}
       /\ EmittedOf("playerLeft")' = {}

C14_KillOfAbsentIgnored == [][KillOfAbsentIgnored]_vars

\* the only player of a room, from which a player was removed before, sent
\* playerKilled while another player is in another room: nothing happened
C14_Witness ==
  /\ last.op = "playerKilled"
  /\ emitted = <<>>
  /\ InGame(last.c)
  /\ PlayersOf(sockets[last.c].currentRoomId) = {last.c}
  /\ \E v \in Seen : <<sockets[last.c].currentRoomId, v>> \in removed
  /\ \E b \in (Active \cap DOMAIN sockets) \ {last.c} :
       InGame(b) /\ sockets[b].currentRoomId # sockets[last.c].currentRoomId

----------------------------------------------------------------------------
(* C15: when two or more players of a room send playerKilled naming the same   *)
(* victim, in any order, the first one handled gets the victim's balance and   *)
(* the kill; every later one is a no-op.                                       *)

SecondKillIgnored ==
  \A c \in Active, v \in VictimIds :
    ( /\ LastWas("playerKilled", c)'
      /\ c \in DOMAIN sockets
      /\ InGame(c)
      /\ <<sockets[c].currentRoomId, v>> \in removed
      /\ PlayerKilled(c, v) )
    => /\ gameRooms' = gameRooms
       /\ emitted' = <<>>

\* a playerKilled that changes the Room Store takes exactly one player out of the
\* caller's room, for good, and changes the money and kills of the caller alone:
\* a victim's balance is credited once, at the moment the victim leaves
KillCreditsOnce ==
  \A c \in Active :
    ( /\ LastWas("playerKilled", c)'
      /\ gameRooms' # gameRooms )
    => LET r == sockets[c].currentRoomId IN
       /\ InGame(c)
       /\ \E v \in PlayersOf(r) :
            /\ PlayersOf(r)' = PlayersOf(r) \ {v}
            /\ <<r, v>> \in removed'
       /\ \A id \in PlayersOf(r)' \ {c} :
            /\ PlayerAt(r, id)'.money = PlayerAt(r, id).money
            /\ PlayerAt(r, id)'.kills = PlayerAt(r, id).kills
       /\ \A q \in RoomNames \ {r} : RoomOf(q)' = RoomOf(q)

C15_OneKillerCredited == [][SecondKillIgnored /\ KillCreditsOnce]_vars

\* two players of a room, a third was killed there by one of them; the other
\* sent playerKilled afterwards and got nothing
C15_Witness ==
  /\ last.op = "playerKilled"
  /\ emitted = <<>>
  /\ now = 0
  /\ InGame(last.c)
  /\ LET r == sockets[last.c].currentRoomId IN
     /\ PlayerAt(r, last.c).money = InitialMoney
     /\ PlayerAt(r, last.c).kills = 0
     /\ <<r, SocketId(3)>> \in removed
     /\ \E k \in Active \ {last.c} :
          /\ k \in PlayersOf(r)
          /\ PlayerAt(r, k).money = 2 * InitialMoney
          /\ PlayerAt(r, k).kills = 1

----------------------------------------------------------------------------
(* C16: in a kill where the killer or the victim is a bot (the id of its       *)
(* PlayerState starts with 'bot-'), no player's money changes: the killer's    *)
(* money after the event is its money before, and any playerKilled             *)
(* notification reports moneyGained 0.                                         *)

IsBot(player) == player.id[1] = "bot-"
\* the kill of v by c is one the server accepts, and a bot is on one side of it
BotKillAccepted(c, v) ==
  /\ c \in DOMAIN sockets
  /\ InGame(c)
  /\ v \in PlayersOf(sockets[c].currentRoomId)
  /\ \/ IsBot(PlayerAt(sockets[c].currentRoomId, c))
     \/ IsBot(PlayerAt(sockets[c].currentRoomId, v))

BotKillMovesNoMoney ==
  \A c \in Active, v \in VictimIds :
    (LastWas("playerKilled", c)' /\ BotKillAccepted(c, v) /\ PlayerKilled(c, v))
    => LET r == sockets[c].currentRoomId IN
       /\ v \notin PlayersOf(r)'
       /\ c # v => c \in PlayersOf(r)'
       /\ \A q \in RoomNames : \A id \in PlayersOf(q)' :
            /\ id \in PlayersOf(q)
            /\ PlayerAt(q, id)'.money = PlayerAt(q, id).money
       /\ \A i \in EmittedOf("playerKilled")' : emitted'[i].data.moneyGained = 0
       /\ EmittedOf("balanceUpdate")' = {}

C16_BotKillNoMoney == [][BotKillMovesNoMoney]_vars

\* a player killed a bot that held money: the notification reports moneyGained 0
\* and the killer's balance as it was at its join
C16_Witness ==
  /\ last.op = "playerKilled"
  /\ InGame(last.c)
  /\ PlayerAt(sockets[last.c].currentRoomId, last.c).money = InitialMoney
  /\ \E i \in EmittedOf("playerKilled") :
       /\ emitted[i].data.victimId = BotId
       /\ emitted[i].data.killerId = last.c
       /\ emitted[i].data.moneyGained = 0
       /\ emitted[i].data.newKillerMoney = InitialMoney

----------------------------------------------------------------------------
(* C17 as claimed: in a kill where the killer or the victim is a bot, no       *)
(* player's kills counter is incremented, on either side of the kill.          *)

BotKillCountsNothing ==
  \A c \in Active, v \in VictimIds :
    (LastWas("playerKilled", c)' /\ BotKillAccepted(c, v) /\ PlayerKilled(c, v))
    => \A q \in RoomNames : \A id \in PlayersOf(q)' :
         PlayerAt(q, id)'.kills = PlayerAt(q, id).kills

C17_BotKillNoKills == [][BotKillCountsNothing]_vars

(* C17 amended: in a kill where the killer is a bot, no kills counter changes  *)
(* and no playerKilled is broadcast; in a kill of a bot by a player that is    *)
(* not a bot, the killer's kills go up by one, the playerKilled broadcast      *)
(* reports the new count, and no other player's kills change.                  *)

BotKillCountsForRealKiller ==
  \A c \in Active, v \in VictimIds :
    (LastWas("playerKilled", c)' /\ BotKillAccepted(c, v) /\ PlayerKilled(c, v))
    => LET r == sockets[c].currentRoomId IN
       /\ \A q \in RoomNames : \A id \in PlayersOf(q)' \ {c} :
            PlayerAt(q, id)'.kills = PlayerAt(q, id).kills
       /\ IsBot(PlayerAt(r, c))
          => /\ c \in PlayersOf(r)' => PlayerAt(r, c)'.kills = PlayerAt(r, c).kills
             /\ EmittedOf("playerKilled")' = {}
       /\ ~IsBot(PlayerAt(r, c))
          => /\ c \in PlayersOf(r)'
             /\ PlayerAt(r, c)'.kills = PlayerAt(r, c).kills + 1
             /\ Cardinality(EmittedOf("playerKilled")') = 1
             /\ \A i \in EmittedOf("playerKilled")' :
                  emitted'[i].data.newKillerKills = PlayerAt(r, c).kills + 1

C17_BotKillCountsForRealKiller == [][BotKillCountsForRealKiller]_vars

\* a player that is not a bot killed a bot: its kills counter went up
C17_Witness ==
  /\ last.op = "playerKilled"
  /\ InGame(last.c)
  /\ ~IsBot(PlayerAt(sockets[last.c].currentRoomId, last.c))
  /\ PlayerAt(sockets[last.c].currentRoomId, last.c).kills >= 1
  /\ \E i \in EmittedOf("playerKilled") :
       /\ emitted[i].data.victimId = BotId
       /\ emitted[i].data.newKillerKills =
            PlayerAt(sockets[last.c].currentRoomId, last.c).kills

----------------------------------------------------------------------------
(* C18: a protocol violation on the game channel (an event from a session that *)
(* is not InGame, a malformed or missing payload for joinGame, playerUpdate,   *)
(* playerStateUpdate or playerKilled, a kill naming an id nobody has) is       *)
(* dropped: the server never ends up crashed, and it never closes the          *)
(* connection; the only close the server makes itself is the roomFull one.     *)

\* a connection found closed right after one of its own events other than its
\* disconnect was closed by the server
ClosedByServer(c) ==
  /\ c \in DOMAIN sockets
  /\ sockets[c].status = "closed"
  /\ last.c = c
  /\ last.op # "disconnect"

C18_ViolationsDropped ==
  /\ process = "running"
  /\ \A c \in Active : ClosedByServer(c) => EmittedOf("roomFull") # {}

----------------------------------------------------------------------------
(* C19: the PlayerState an accepted joinGame creates starts with money 1.00,   *)
(* kills 0, length 10 and lastUpdate = the time of the join; and a connection  *)
(* has a PlayerState only after its joinGame was accepted, never because it    *)
(* was opened.                                                                 *)

JoinCreatesFreshPlayer ==
  \A c \in Active, p \in JoinPayloads, rnd \in JoinRandoms :
    (LastWas("joinGame", c)' /\ JoinAccepted(c, p) /\ JoinGame(c, p, rnd))
    => LET r == TargetRoom(p) IN
       /\ c \notin AllPlayerIds
       /\ c \in PlayersOf(r)'
       /\ PlayerAt(r, c)'.id = c
       /\ PlayerAt(r, c)'.money = 100
       /\ PlayerAt(r, c)'.kills = 0
       /\ PlayerAt(r, c)'.length = 10
       /\ PlayerAt(r, c)'.lastUpdate = now'

\* a PlayerState appears for a connection only in that connection's joinGame
OnlyJoinCreates ==
  \A c \in Active :
    (c \notin AllPlayerIds /\ c \in AllPlayerIds')
    => /\ LastWas("joinGame", c)'
       /\ ~sockets[c].isPlayerInGame
       /\ sockets'[c].isPlayerInGame

C19_JoinCreatesFreshPlayer == [][JoinCreatesFreshPlayer /\ OnlyJoinCreates]_vars

\* a connection joined after the clock had advanced: its PlayerState carries the
\* starting values and the time of the join
C19_Witness ==
  /\ last.op = "joinGame"
  /\ now > 0
  /\ EmittedOf("gameState") # {}
  /\ InGame(last.c)
  /\ LET player == PlayerAt(sockets[last.c].currentRoomId, last.c) IN
     /\ player.money = 100
     /\ player.kills = 0
     /\ player.length = 10
     /\ player.lastUpdate = now

----------------------------------------------------------------------------
(* C20: a joinGame received while the connection is already InGame is a no-op: *)
(* its PlayerState (room, money, kills, position, lastUpdate) is unchanged,    *)
(* its cached room key is unchanged even when the duplicate names another      *)
(* room, no room is created, and no gameState or playerJoined is emitted.      *)

DuplicateJoinIgnored ==
  \A c \in Active, p \in JoinPayloads, rnd \in JoinRandoms :
    ( /\ LastWas("joinGame", c)'
      /\ c \in DOMAIN sockets
      /\ InGame(c)
      /\ JoinGame(c, p, rnd) )
    => /\ gameRooms' = gameRooms
       /\ sockets'[c].currentRoomId = sockets[c].currentRoomId
       /\ sockets' = sockets
       /\ EmittedOf("gameState")' = {}
       /\ EmittedOf("playerJoined")' = {}
       /\ emitted' = <<>>

C20_DuplicateJoinIgnored == [][DuplicateJoinIgnored]_vars

\* a player that joined at an earlier time and made a kill sent joinGame again:
\* there is still one room, and its PlayerState still carries the time of its
\* first join and the balance of its kill
C20_Witness ==
  /\ last.op = "joinGame"
  /\ emitted = <<>>
  /\ InGame(last.c)
  /\ Len(gameRooms) = 1
  /\ now > 0
  /\ PlayerAt(sockets[last.c].currentRoomId, last.c).lastUpdate = 0
  /\ PlayerAt(sockets[last.c].currentRoomId, last.c).money = 2 * InitialMoney

----------------------------------------------------------------------------
(* C21: a playerUpdate from an InGame player whose head is missing or whose    *)
(* head coordinates are not two finite numbers is dropped: the player's head,  *)
(* direction, speed, length, isBoosting and lastUpdate are unchanged and no    *)
(* playerUpdate is broadcast.                                                  *)

IsFiniteNumber(v) == v.type = "number" /\ v.special = "none"
FiniteHead(head) ==
  /\ head # Undefined
  /\ IsFiniteNumber(head.x)
  /\ IsFiniteNumber(head.y)

UpdateFields == {"head", "direction", "speed", "length", "isBoosting", "lastUpdate"}

BadHeadDropped ==
  \A c \in Active, u \in UpdatePayloads \cup NonFiniteUpdates :
    ( /\ LastWas("playerUpdate", c)'
      /\ c \in DOMAIN sockets
      /\ InGame(c)
      /\ ~FiniteHead(u.head)
      /\ PlayerUpdate(c, u) )
    => LET r == sockets[c].currentRoomId IN
       /\ c \in PlayersOf(r)'
       /\ \A f \in UpdateFields : PlayerAt(r, c)'[f] = PlayerAt(r, c)[f]
       /\ EmittedOf("playerUpdate")' = {}

C21_BadHeadDropped == [][BadHeadDropped]_vars

----------------------------------------------------------------------------
(* C22: an accepted playerUpdate changes only the sender's head, direction,    *)
(* speed, length, isBoosting and lastUpdate: the sender's other fields         *)
(* (segments, money, kills, id, username among them), every other player's     *)
(* state and the membership of every room are left unchanged.                  *)

\* the rooms of the store with the keys of each, in order
Membership == [i \in DOMAIN gameRooms |-> [k |-> gameRooms[i].k, ids |-> MapKeys(gameRooms[i].v)]]

UpdateTouchesOnlyItsFields ==
  \A c \in Active, u \in UpdatePayloads :
    (LastWas("playerUpdate", c)' /\ UpdateAccepted(c, u) /\ PlayerUpdate(c, u))
    => LET r == sockets[c].currentRoomId IN
       /\ Membership' = Membership
       /\ DOMAIN PlayerAt(r, c)' = DOMAIN PlayerAt(r, c)
       /\ \A f \in DOMAIN PlayerAt(r, c) \ UpdateFields : PlayerAt(r, c)'[f] = PlayerAt(r, c)[f]
       /\ \A q \in RoomNames : \A id \in PlayersOf(q) \ {c} : PlayerAt(q, id)' = PlayerAt(q, id)

C22_UpdateFrame == [][UpdateTouchesOnlyItsFields]_vars

\* an update moved a player's head while its segments stayed at the spawn point;
\* another player shares its room and a second room has a player
C22_Witness ==
  /\ last.op = "playerUpdate"
  /\ EmittedOf("playerUpdate") # {}
  /\ LET r == sockets[last.c].currentRoomId IN
       /\ PlayerAt(r, last.c).head = Pos(10, 20)
       /\ PlayerAt(r, last.c).segments = <<Pos(2500, 2500)>>
       /\ PlayerAt(r, last.c).money = InitialMoney
       /\ PlayersOf(r) \ {last.c} # {}
       /\ \E q \in RoomNames \ {r} : PlayersOf(q) # {}

----------------------------------------------------------------------------
(* C23: an accepted playerStateUpdate overwrites exactly the PlayerState       *)
(* fields present in the payload, leaves every field absent from the payload   *)
(* unchanged, and sets lastUpdate to the server's current time even when the   *)
(* payload itself carries a lastUpdate value.                                  *)

StateUpdateMerges ==
  \A c \in Active, d \in StatePayloads \cup {SegmentSync} :
    ( /\ LastWas("playerStateUpdate", c)'
      /\ InGame(c)
      /\ PlayerStateUpdate(c, d) )
    => LET r == sockets[c].currentRoomId IN
       /\ c \in PlayersOf(r)'
       /\ PlayerAt(r, c)'.lastUpdate = now
       /\ \A f \in DOMAIN d \ {"lastUpdate"} : PlayerAt(r, c)'[f] = d[f]
       /\ \A f \in DOMAIN PlayerAt(r, c) \ (DOMAIN d \cup {"lastUpdate"}) :
            PlayerAt(r, c)'[f] = PlayerAt(r, c)[f]
       /\ DOMAIN PlayerAt(r, c)' = DOMAIN PlayerAt(r, c) \cup DOMAIN d

C23_StateUpdateMerges == [][StateUpdateMerges]_vars

\* a segment sync that carried lastUpdate -1 was merged after the clock had moved:
\* the player has the payload's segments and length, the balance it had, and the
\* server's time as lastUpdate
C23_Witness ==
  /\ last.op = "playerStateUpdate"
  /\ now > 0
  /\ \E i \in EmittedOf("playerStateUpdate") :
       "lastUpdate" \in DOMAIN emitted[i].data /\ emitted[i].data.lastUpdate = 0 - 1
  /\ LET r == sockets[last.c].currentRoomId IN
       /\ PlayerAt(r, last.c).segments = SegmentSync.segments
       /\ PlayerAt(r, last.c).length = SegmentSync.length
       /\ PlayerAt(r, last.c).money = InitialMoney
       /\ PlayerAt(r, last.c).lastUpdate = now

----------------------------------------------------------------------------
(* C24: a player's lastUpdate never decreases over its lifetime and always     *)
(* equals the server time of that player's most recent accepted joinGame,      *)
(* playerUpdate, playerStateUpdate or playerRespawn; a playerKilled sent by    *)
(* the player does not refresh it, and no client-supplied value can set it.    *)

\* the step handled an event of id that the server accepted and that stamps:
\* an accepted playerUpdate, playerStateUpdate or playerRespawn is one that
\* was broadcast
StampedBy(id) ==
  /\ last.c = id
  /\ \/ last.op = "playerUpdate" /\ EmittedOf("playerUpdate") # {}
     \/ last.op = "playerStateUpdate" /\ EmittedOf("playerStateUpdate") # {}
     \/ last.op = "playerRespawn" /\ EmittedOf("playerRespawned") # {}

\* a step that leaves the store as it was and emits nothing stamps nobody and
\* changes no lastUpdate; any other step is looked at player by player
LastUpdateTracksAccepted ==
  \/ gameRooms' = gameRooms /\ emitted' = <<>>
  \/ \A r \in RoomNames : \A id \in PlayersOf(r)' :
       IF id \notin PlayersOf(r)
       THEN LastWas("joinGame", id)' /\ PlayerAt(r, id)'.lastUpdate = now'
       ELSE /\ PlayerAt(r, id)'.lastUpdate >= PlayerAt(r, id).lastUpdate
            /\ IF StampedBy(id)'
               THEN PlayerAt(r, id)'.lastUpdate = now'
               ELSE PlayerAt(r, id)'.lastUpdate = PlayerAt(r, id).lastUpdate

LastUpdateIsServerTime ==
  \A r \in RoomNames : \A id \in PlayersOf(r) :
    PlayerAt(r, id).lastUpdate \in {n * ClockStep : n \in 0..(now \div ClockStep)}

C24_LastUpdateTracksAccepted == [][LastUpdateTracksAccepted]_vars /\ []LastUpdateIsServerTime

\* after the clock moved, a player made a kill and its lastUpdate is still the
\* time of its earlier event
C24_Witness ==
  /\ last.op = "playerKilled"
  /\ EmittedOf("playerKilled") # {}
  /\ LET r == sockets[last.c].currentRoomId IN
       /\ last.c \in PlayersOf(r)
       /\ PlayerAt(r, last.c).kills = 1
       /\ PlayerAt(r, last.c).lastUpdate < now

----------------------------------------------------------------------------
(* C25: a reaper tick never removes a player whose age (tick time minus        *)
(* lastUpdate) is less than or equal to the staleness threshold: such a player *)
(* is still in its room, with unchanged state, after the tick.                 *)

Age(r, id) == now - PlayerAt(r, id).lastUpdate

ReaperSparesFresh ==
  (last'.op = "staleCleanup" /\ ReaperTick)
  => \A r \in RoomNames : \A id \in PlayersOf(r) :
       Age(r, id) <= staleThreshold
       => /\ id \in PlayersOf(r)'
          /\ PlayerAt(r, id)' = PlayerAt(r, id)

C25_ReaperSparesFresh == [][ReaperSparesFresh]_vars

\* a reaper tick took a stale player out of a room and left in it a player whose
\* age is exactly the threshold
C25_Witness ==
  /\ last.op = "staleCleanup"
  /\ \E r \in RoomNames :
       /\ \E i \in EmittedOf("playerLeft") : <<r, emitted[i].data.playerId>> \in removed
       /\ \E id \in PlayersOf(r) : Age(r, id) = staleThreshold

----------------------------------------------------------------------------
(* C26: after the disconnect of a connection has been handled, the             *)
(* connection's id is a key in no room of the store (whatever its cached room  *)
(* key says), a playerLeft for it has been sent to the remaining members of    *)
(* the room it was in, and that room has been deleted if the removal left it   *)
(* empty.                                                                      *)

DisconnectCleansUp ==
  \A c \in Active :
    (LastWas("disconnect", c)' /\ Disconnect(c))
    => /\ c \notin AllPlayerIds'
       /\ \A r \in RoomNames :
            c \in PlayersOf(r)
            => /\ \E i \in EmittedOf("playerLeft")' :
                    /\ emitted'[i].data.playerId = c
                    /\ PlayersOf(r) \ {c} \subseteq emitted'[i].to
                    /\ c \notin emitted'[i].to
               /\ PlayersOf(r)' = PlayersOf(r) \ {c}
               /\ MapHas(gameRooms', r) <=> PlayersOf(r) # {c}

C26_DisconnectCleansUp == [][DisconnectCleansUp]_vars

\* a player disconnected from a room it shared: the other player got playerLeft
\* and the room is still there without the one that left
C26_Witness ==
  /\ last.op = "disconnect"
  /\ last.c \in Terminated
  /\ last.c \notin AllPlayerIds
  /\ \E i \in EmittedOf("playerLeft") :
       /\ emitted[i].data.playerId = last.c
       /\ emitted[i].to # {}
       /\ emitted[i].to \subseteq PlayersOf(sockets[last.c].currentRoomId)

----------------------------------------------------------------------------
(* C27: every accepted kill between two non-bot players produces, to the room, *)
(* one playerKilled event followed by one playerLeft event for the victim, in  *)
(* that order, and the victim has been removed from the room's mapping before  *)
(* the playerLeft is emitted.                                                  *)

\* the open connections that joined the socket.io room r
Audience(r) == {s \in DOMAIN sockets : sockets[s].status = "open" /\ r \in sockets[s].rooms}

KilledThenLeft ==
  \A c \in Active, v \in VictimIds :
    (LastWas("playerKilled", c)' /\ KillAccepted(c, v) /\ PlayerKilled(c, v))
    => LET r == sockets[c].currentRoomId IN
       /\ Cardinality(EmittedOf("playerKilled")') = 1
       /\ Cardinality(EmittedOf("playerLeft")') = 1
       /\ \A i \in EmittedOf("playerKilled")', j \in EmittedOf("playerLeft")' :
            /\ i < j
            /\ emitted'[i].data.victimId = v
            /\ emitted'[j].data.playerId = v
            /\ emitted'[i].to = Audience(r)
            /\ emitted'[j].to = Audience(r)
       /\ v \notin PlayersOf(r)'

\* the two statements that end the handler, run on a state where the kill of v by
\* c is accepted: after the first the victim is out of the map and nothing has
\* been emitted, after the second the playerLeft is out
RemovedBeforeLeft ==
  \A c \in Active \cap DOMAIN sockets : \A v \in VictimIds :
    KillAccepted(c, v)
    => LET r == sockets[c].currentRoomId
           steps == RemoveVictimSteps(World, r, v)
       IN /\ ~MapHas(MapGet(steps[1].gameRooms, r), v)
          /\ steps[1].emitted = <<>>
          /\ ~MapHas(MapGet(steps[2].gameRooms, r), v)
          /\ Len(steps[2].emitted) = 1
          /\ steps[2].emitted[1].ev = "playerLeft"
          /\ steps[2].emitted[1].data.playerId = v

C27_KilledThenLeft == [][KilledThenLeft]_vars /\ []RemovedBeforeLeft

\* a kill between two players was announced with playerKilled and then with
\* playerLeft to a room where the victim still listens, and the victim is out of
\* the map
C27_Witness ==
  /\ last.op = "playerKilled"
  /\ \E i \in EmittedOf("playerKilled"), j \in EmittedOf("playerLeft") :
       /\ i < j
       /\ emitted[i].data.moneyGained > 0
       /\ emitted[j].data.playerId = emitted[i].data.victimId
       /\ emitted[j].data.playerId # last.c
       /\ emitted[j].data.playerId \in emitted[j].to
       /\ emitted[j].data.playerId \notin PlayersOf(sockets[last.c].currentRoomId)

----------------------------------------------------------------------------
(* C28: every leaderboardUpdate emitted for a room lists at most 10 entries,   *)
(* contains only non-bot players currently in that room, is ordered by         *)
(* non-increasing balance, and omits a non-bot player of the room only if 10   *)
(* listed players have a balance greater than or equal to that player's; the   *)
(* leaderboard tick changes nothing in the Room Store and emits nothing for a  *)
(* room with no players.                                                       *)

\* the rooms that hold a player, in the order of the store
PopulatedRooms == LET populated(e) == MapSize(e.v) > 0 IN SelectSeq(gameRooms, populated)
\* what a leaderboard entry shows of a player
ShownOf(player) ==
  [username |-> player.username, balance |-> player.money,
   kills |-> player.kills, length |-> player.length]
HumansOf(room) == {j \in DOMAIN room : IsHuman(room[j].v)}

\* board is a leaderboard of the players of room
IsLeaderboardOf(board, room) ==
  /\ Len(board) <= 10
  /\ Len(board) <= Cardinality(HumansOf(room))
  /\ \A k \in DOMAIN board : \E j \in HumansOf(room) : board[k] = ShownOf(room[j].v)
  /\ \A k \in DOMAIN board : k < Len(board) => board[k].balance >= board[k + 1].balance
  /\ \A j \in HumansOf(room) :
       \/ \E k \in DOMAIN board : board[k] = ShownOf(room[j].v)
       \/ /\ Len(board) = 10
          /\ \A k \in DOMAIN board : board[k].balance >= room[j].v.money

\* the tick sent one leaderboardUpdate per populated room, in order, each to the
\* connections that joined the room
LeaderboardsRight ==
  last.op = "leaderboard"
  => /\ Len(emitted) = Len(PopulatedRooms)
     /\ \A i \in DOMAIN emitted :
          /\ emitted[i].ev = "leaderboardUpdate"
          /\ emitted[i].to = Audience(PopulatedRooms[i].k)
          /\ IsLeaderboardOf(emitted[i].data, PopulatedRooms[i].v)

LeaderboardReadsOnly ==
  last'.op = "leaderboard" => gameRooms' = gameRooms /\ sockets' = sockets

OnlyTickSendsLeaderboard ==
  EmittedOf("leaderboardUpdate") # {} => last.op = "leaderboard"

C28_Leaderboard ==
  []LeaderboardsRight /\ []OnlyTickSendsLeaderboard /\ [][LeaderboardReadsOnly]_vars

\* a tick listed 10 of the more than 10 real players of a room, the richest first
\* and richer than the last, while the store held a room without players, for
\* which nothing was sent
C28_Witness ==
  /\ last.op = "leaderboard"
  /\ Len(PopulatedRooms) < Len(gameRooms)
  /\ \E i \in DOMAIN emitted :
       /\ Len(emitted[i].data) = 10
       /\ emitted[i].data[1].balance > emitted[i].data[10].balance
       /\ Cardinality(HumansOf(PopulatedRooms[i].v)) > 10

----------------------------------------------------------------------------
(* C29: every accepted playerRespawn delivers a playerRespawned event and a    *)
(* balanceUpdate event with source 'respawn' and newBalance 1.00 to every      *)
(* connection in the room, the respawning player included, and does not change *)
(* the membership of any room.                                                 *)

RespawnAnnounced ==
  \A c \in Active, rnd \in RespawnRandoms :
    (LastWas("playerRespawn", c)' /\ RespawnAccepted(c) /\ PlayerRespawn(c, rnd))
    => LET r == sockets[c].currentRoomId IN
       /\ c \in Audience(r)
       /\ PlayersOf(r) \subseteq Audience(r)
       /\ \E i \in EmittedOf("playerRespawned")' :
            /\ emitted'[i].data.playerId = c
            /\ emitted'[i].data.newBalance = 100
            /\ emitted'[i].to = Audience(r)
       /\ \E i \in EmittedOf("balanceUpdate")' :
            /\ emitted'[i].data.playerId = c
            /\ emitted'[i].data.source = "respawn"
            /\ emitted'[i].data.newBalance = 100
            /\ emitted'[i].to = Audience(r)
       /\ Membership' = Membership

C29_RespawnAnnounced == [][RespawnAnnounced]_vars

\* a player that had made a kill respawned: playerRespawned with newBalance 1.00
\* went to the respawning player, to another player of the room and to the
\* victim, which still listens
C29_Witness ==
  /\ last.op = "playerRespawn"
  /\ \E i \in EmittedOf("playerRespawned") :
       /\ emitted[i].data.newBalance = 100
       /\ last.c \in emitted[i].to
       /\ emitted[i].to \cap (PlayersOf(sockets[last.c].currentRoomId) \ {last.c}) # {}
       /\ emitted[i].to \cap Terminated # {}

----------------------------------------------------------------------------
(* C30: every core game event emitted on behalf of a room R (playerJoined,     *)
(* playerUpdate, playerStateUpdate, playerKilled, balanceUpdate,               *)
(* playerRespawned, playerLeft, leaderboardUpdate) is delivered only to        *)
(* connections that joined R, and a handler acting on room R never changes the *)
(* player mapping or any PlayerState of a different room.                      *)

CoreEvents ==
  {"playerJoined", "playerUpdate", "playerStateUpdate", "playerKilled",
   "balanceUpdate", "playerRespawned", "playerLeft", "leaderboardUpdate"}

\* the room on whose behalf the i-th event of the last step was emitted: the
\* room of the list for a leaderboard, the room the removed player was in for
\* the cleanup timer, the room of the connection for a socket handler
EventRoom(i) ==
  IF last.op = "leaderboard" THEN PopulatedRooms[i].k
  ELSE IF last.op = "staleCleanup"
       THEN CHOOSE r \in RoomNames : <<r, emitted[i].data.playerId>> \in removed
       ELSE sockets[last.c].currentRoomId

ScopedDelivery ==
  \A i \in DOMAIN emitted :
    emitted[i].ev \in CoreEvents
    => /\ EventRoom(i) \in RoomNames
       /\ emitted[i].to \subseteq Audience(EventRoom(i))

\* an event of a socket handler leaves the rooms other than the connection's alone
OtherRoomsUntouched ==
  \A c \in Active :
    last'.c = c
    => \A q \in RoomNames :
         q # sockets'[c].currentRoomId => RoomOf(q)' = RoomOf(q)

\* no connection has joined two rooms
OneRoomPerConnection ==
  \A s \in DOMAIN sockets : Cardinality(sockets[s].rooms) <= 1

C30_RoomScoped ==
  []ScopedDelivery /\ []OneRoomPerConnection /\ [][OtherRoomsUntouched]_vars

\* an event of one room reached a connection of that room while a player of the
\* other room, still connected, got nothing
C30_Witness ==
  /\ last.c \in Active
  /\ \E i \in DOMAIN emitted :
       /\ emitted[i].ev \in CoreEvents
       /\ emitted[i].to # {}
       /\ \E q \in RoomNames \ {EventRoom(i)} :
            \E s \in PlayersOf(q) : sockets[s].status = "open" /\ s \notin emitted[i].to

----------------------------------------------------------------------------
(* C31: in every reachable state the Connection Registry has no username entry *)
(* whose set of connection ids is empty: an entry is created only together     *)
(* with its first connection id and is deleted by the disconnect that removes  *)
(* its last connection id.                                                     *)

RegistryNames == MapKeySet(onlineUsers)
IdsOf(username) == MapGet(onlineUsers, username)

NoEmptyEntry == \A i \in DOMAIN onlineUsers : onlineUsers[i].v # {}

EntryBornWithFirstId ==
  \A username \in RegistryNames' \ RegistryNames :
    /\ last'.op = "join"
    /\ IdsOf(username)' = {last'.c}

EntryDiesWithLastId ==
  /\ \A username \in RegistryNames \ RegistryNames' :
       /\ last'.op = "disconnect"
       /\ IdsOf(username) = {last'.c}
  /\ \A c \in Active :
       LastWas("disconnect", c)'
       => \A username \in RegistryNames :
            IdsOf(username) = {c} => username \notin RegistryNames'

C31_NoEmptyRegistryEntry ==
  []NoEmptyEntry /\ [][EntryBornWithFirstId /\ EntryDiesWithLastId]_vars

\* a disconnect took the last connection id of one username, whose entry is gone,
\* and one of two ids of another username, whose entry stays
C31_Witness ==
  /\ last.op = "disconnect"
  /\ "bob" \notin RegistryNames
  /\ "bob" \in sockets[last.c].pendingJoins
  /\ "ann" \in RegistryNames
  /\ "ann" \in sockets[last.c].pendingJoins
  /\ IdsOf("ann") # {}

----------------------------------------------------------------------------
(* C32: after a connection's disconnect has been handled, its connection id    *)
(* appears in no Connection Registry entry, even if the connection had sent    *)
(* 'join' under several usernames and even if a 'join' handler of it, waiting  *)
(* for the persistence collaborator, resumes after the disconnect.             *)

Disconnected == {c \in DOMAIN sockets : sockets[c].status = "closed"}

GoneFromRegistry ==
  \A c \in Disconnected : \A i \in DOMAIN onlineUsers : c \notin onlineUsers[i].v

\* the disconnect itself clears every entry of the id, and a handler that resumes
\* leaves the registry as it is
DisconnectClearsRegistry ==
  \A c \in Active :
    /\ LastWas("disconnect", c)'
       => \A i \in DOMAIN onlineUsers' : c \notin onlineUsers'[i].v
    /\ LastWas("joinResume", c)' => onlineUsers' = onlineUsers

C32_GoneFromRegistry == []GoneFromRegistry /\ [][DisconnectClearsRegistry]_vars

\* a connection that had announced two usernames is closed; one of its two
\* handlers has resumed since, the other still waits, and the registry holds the
\* other connection
C32_Witness ==
  /\ last.op = "joinResume"
  /\ sockets[last.c].status = "closed"
  /\ sockets[last.c].pendingJoins # {}
  /\ onlineUsers # <<>>
  /\ GoneFromRegistry

----------------------------------------------------------------------------
(* C33: in every reachable state, for every room and every entry (key,         *)
(* PlayerState) of its player mapping, PlayerState.id equals the key; no       *)
(* client event can make a stored PlayerState carry another id, and in         *)
(* particular cannot turn a real player's id into a 'bot-' id.                 *)

C33_IdIsKey ==
  \A i \in DOMAIN gameRooms : \A j \in DOMAIN gameRooms[i].v :
    gameRooms[i].v[j].v.id = gameRooms[i].v[j].k

----------------------------------------------------------------------------
(* C34: a player's money and kills change only through an accepted             *)
(* playerKilled (transfer to the killer) or an accepted playerRespawn (reset): *)
(* no playerUpdate or playerStateUpdate sent by a client changes any player's  *)
(* money or kills.                                                             *)

MoneyAndKillsMoveByKillOrRespawn ==
  \A r \in RoomNames : \A id \in PlayersOf(r) \cap PlayersOf(r)' :
    ( \/ PlayerAt(r, id)'.money # PlayerAt(r, id).money
      \/ PlayerAt(r, id)'.kills # PlayerAt(r, id).kills )
    => last'.op \in {"playerKilled", "playerRespawn"}

C34_MoneyAndKillsMoveByKillOrRespawn == [][MoneyAndKillsMoveByKillOrRespawn]_vars

----------------------------------------------------------------------------
(* C35: a playerKilled whose victimId is the caller's own connection id is a   *)
(* no-op: it does not change the caller's money or kills, does not remove the  *)
(* caller from the room, and emits no playerKilled or playerLeft event.        *)

SelfKillIsNoOp ==
  \A c \in Active :
    (LastWas("playerKilled", c)' /\ InGame(c) /\ PlayerKilled(c, c))
    => LET r == sockets[c].currentRoomId IN
       /\ c \in PlayersOf(r)'
       /\ PlayerAt(r, c)'.money = PlayerAt(r, c).money
       /\ PlayerAt(r, c)'.kills = PlayerAt(r, c).kills
       /\ EmittedOf("playerKilled")' = {}
       /\ EmittedOf("playerLeft")' = {}

C35_SelfKillIsNoOp == [][SelfKillIsNoOp]_vars

----------------------------------------------------------------------------
(* C36: in any run in which no playerStateUpdate payload carries a money       *)
(* field, the sum of money over the players currently in a room never exceeds  *)
(* 1.00 times the number of joinGame events accepted into that room so far     *)
(* plus 1.00 times the number of accepted respawns in it, and every player in  *)
(* the room has money >= 1.00.                                                 *)

RECURSIVE SumMoney(_)
SumMoney(room) ==
  IF room = <<>> THEN 0 ELSE Head(room).v.money + SumMoney(Tail(room))

C36_MoneyBoundedByJoins ==
  \A r \in RoomNames :
    /\ SumMoney(RoomOf(r)) <= 100 * accepted.joins[r] + 100 * accepted.respawns[r]
    /\ \A id \in PlayersOf(r) : PlayerAt(r, id).money >= 100

\* in a room that saw a respawn, a player holds the balance of a victim on top of
\* its own and the room holds exactly 1.00 per accepted join
C36_Witness ==
  \E r \in RoomNames :
    /\ accepted.respawns[r] >= 1
    /\ accepted.joins[r] >= 2
    /\ \E id \in PlayersOf(r) : PlayerAt(r, id).money >= 200
    /\ SumMoney(RoomOf(r)) = 100 * accepted.joins[r]

----------------------------------------------------------------------------
(* C37: for every connection id, a playerLeft event naming it is emitted at    *)
(* most once over the whole run, under any interleaving of kill, reaper tick   *)
(* and disconnect: a player removed by a kill or by the reaper does not cause  *)
(* a second playerLeft when its connection later disconnects or when a later   *)
(* reaper tick runs.                                                           *)

\* a step announces an id as gone once, only for a player that was in a room and
\* had never been removed, and from then on the id counts as removed for good
LeftOnce ==
  \/ emitted' = <<>>
  \/ \A i \in EmittedOf("playerLeft")' :
       LET id == emitted'[i].data.playerId IN
         /\ \A j \in EmittedOf("playerLeft")' : emitted'[j].data.playerId = id => j = i
         /\ id \in AllPlayerIds
         /\ id \notin Terminated
         /\ id \notin AllPlayerIds'
         /\ id \in Terminated'

C37_PlayerLeftAtMostOnce == [][LeftOnce /\ RemovedIsForever]_vars

\* a connection whose player was removed earlier, by a kill or by the reaper,
\* has disconnected and no playerLeft was emitted for it again
C37_Witness ==
  /\ last.op = "disconnect"
  /\ last.c \in Terminated
  /\ sockets[last.c].status = "closed"
  /\ EmittedOf("playerLeft") = {}
  /\ AllPlayerIds # {}

----------------------------------------------------------------------------
(* C38: any room that is in the Room Store with an empty player mapping when a *)
(* reaper tick starts is absent from the Room Store when that tick ends, so    *)
(* under fairness of the reaper timer no empty room persists forever.          *)

EmptyRoomIn(r) == MapHas(gameRooms, r) /\ MapSize(MapGet(gameRooms, r)) = 0

TickDropsEmptyRooms ==
  last'.op = "staleCleanup" =>
    \A r \in RoomNames : EmptyRoomIn(r) => ~MapHas(gameRooms', r)

EmptyRoomEventuallyGone ==
  \A r \in RoomNames : EmptyRoomIn(r) ~> ~EmptyRoomIn(r)

C38_ReaperDropsEmptyRooms == [][TickDropsEmptyRooms]_vars /\ EmptyRoomEventuallyGone

\* the only connection there ever was killed itself before anything could go
\* stale, which left its room empty, and a reaper tick has taken the room away
C38_Witness ==
  /\ last.op = "staleCleanup"
  /\ now = 0
  /\ gameRooms = EmptyMap
  /\ emitted = <<>>
  /\ \E c \in Active :
       /\ DOMAIN sockets = {c}
       /\ sockets[c].status = "open"
       /\ c \in Terminated

----------------------------------------------------------------------------
(* C39: one run of the manual cleanup endpoint (POST                            *)
(* /api/cleanup-stale-players) has the same effect on the Room Store and emits *)
(* the same playerLeft events as one reaper tick executed at the same instant  *)
(* with a staleness threshold of 30000 ms: the same players are removed and    *)
(* the same emptied rooms are deleted.                                         *)

ManualMatchesReaper ==
  last'.op = "manualCleanup" =>
    LET tick == SweepRooms(World, 30000) IN
      /\ gameRooms' = tick.gameRooms
      /\ emitted' = tick.emitted
      /\ removed' = tick.removed

C39_ManualCleanupIsReaperTick == [][ManualMatchesReaper]_vars

\* a run of the endpoint removed a stale player and deleted its room, which the
\* removal had emptied, and spared a player of another room
C39_Witness ==
  /\ last.op = "manualCleanup"
  /\ AllPlayerIds # {}
  /\ \E i \in EmittedOf("playerLeft") : \E r \in RoomNames :
       /\ <<r, emitted[i].data.playerId>> \in removed
       /\ ~MapHas(gameRooms, r)

====
